---- MODULE Spec2Model ----
(***************************************************************************)
(* DataLineage: content-addressed dataset versioning.                      *)
(*                                                                         *)
(* The model follows src/src/preprocess.py (the deterministic pipeline),   *)
(* src/src/hasher.py (canonical bytes and digests), src/src/repo.py (HEAD, *)
(* log, version directories), src/src/commit_service.py (the three commit  *)
(* entry points and _persist_version, one action per statement that        *)
(* touches the disk), src/src/diff_service.py (compare) and the checkout   *)
(* flow of src/app.py.                                                     *)
(*                                                                         *)
(* Text is a sequence of one-character strings over Chars.  A digest is    *)
(* modelled collision-free: the digest of a payload is the payload under a *)
(* tag.                                                                    *)
(***************************************************************************)
EXTENDS Integers, Sequences, FiniteSets, TLC

(***************************************************************************)
(* Characters                                                              *)
(***************************************************************************)

\* "S1" stands for U+00B9 (superscript one), the one non-ASCII character.
Chars == {"a", "b", "m", "o", "y", "A", "B", "0", "1", " ", "!", ".", "S1"}

\* code point of a character (Python compares str by code point)
ord(c) ==
    CASE c = " " -> 32 [] c = "!" -> 33 [] c = "." -> 46
      [] c = "0" -> 48 [] c = "1" -> 49
      [] c = "A" -> 65 [] c = "B" -> 66
      [] c = "a" -> 97 [] c = "b" -> 98 [] c = "m" -> 109
      [] c = "o" -> 111 [] c = "y" -> 121
      [] c = "S1" -> 185

\* str.lower() on one character
char_lower(c) == CASE c = "A" -> "a" [] c = "B" -> "b" [] OTHER -> c

\* unicodedata.normalize("NFKC", c) on one character
char_nfkc(c) == IF c = "S1" THEN "1" ELSE c

\* the regex class \s
IsSpace(c) == c = " "

\* the regex class [a-z0-9]
IsLowerAlnum(c) == c \in {"a", "b", "m", "o", "y", "0", "1"}

\* the regex class \d restricted to Chars (U+00B9 is category No, not Nd)
IsDigit(c) == c \in {"0", "1"}

DigitVal(c) == IF c = "1" THEN 1 ELSE 0

(***************************************************************************)
(* Strings                                                                 *)
(***************************************************************************)

RECURSIVE str_lstrip(_)
str_lstrip(s) ==
    IF s # <<>> /\ IsSpace(Head(s)) THEN str_lstrip(Tail(s)) ELSE s

RECURSIVE str_rstrip(_)
str_rstrip(s) ==
    IF s # <<>> /\ IsSpace(s[Len(s)])
    THEN str_rstrip(SubSeq(s, 1, Len(s) - 1))
    ELSE s

\* str.strip()
str_strip(s) == str_rstrip(str_lstrip(s))

\* str.lower()
str_lower(s) == [i \in 1..Len(s) |-> char_lower(s[i])]

\* unicodedata.normalize("NFKC", text)
str_nfkc(s) == [i \in 1..Len(s) |-> char_nfkc(s[i])]

\* re.sub(r"[^a-z0-9\s]", " ", text)
sub_non_alnum(s) ==
    [i \in 1..Len(s) |-> IF IsLowerAlnum(s[i]) \/ IsSpace(s[i]) THEN s[i] ELSE " "]

\* re.sub(r"\s+", " ", text)
RECURSIVE sub_spaces(_)
sub_spaces(s) ==
    IF s = <<>> THEN <<>>
    ELSE IF IsSpace(Head(s))
         THEN <<" ">> \o sub_spaces(str_lstrip(s))
         ELSE <<Head(s)>> \o sub_spaces(Tail(s))

\* re.sub(r"https?://\S+|www\.\S+", " ", text): no string over Chars holds
\* "http" or "www", so the pattern never matches
sub_urls(s) == s

\* lexicographic order of two strings by code point: -1, 0 or 1
RECURSIVE str_cmp(_, _)
str_cmp(s, t) ==
    IF s = <<>> /\ t = <<>> THEN 0
    ELSE IF s = <<>> THEN -1
    ELSE IF t = <<>> THEN 1
    ELSE IF ord(Head(s)) < ord(Head(t)) THEN -1
    ELSE IF ord(Head(s)) > ord(Head(t)) THEN 1
    ELSE str_cmp(Tail(s), Tail(t))

(***************************************************************************)
(* Cells, numbers and tables                                               *)
(*                                                                         *)
(* A cell is null, a string, or a number n.f (n the integer part, f the    *)
(* fraction digits without trailing zeros).  A table is a DataFrame: its   *)
(* column labels, one dtype per column, and its rows in index order.       *)
(***************************************************************************)

Null == [s |-> <<>>, k |-> "null", n |-> 0, f |-> <<>>]
Str(s) == [s |-> s, k |-> "str", n |-> 0, f |-> <<>>]
Num(n, f) == [s |-> <<>>, k |-> "num", n |-> n, f |-> f]

\* pd.isna(value)
isna(c) == c.k = "null"

IsDigits(s) == s # <<>> /\ \A i \in 1..Len(s) : IsDigit(s[i])

\* position of the first "." in s, 0 when there is none
RECURSIVE DotAt(_)
DotAt(s) ==
    IF s = <<>> THEN 0
    ELSE IF Head(s) = "." THEN 1
    ELSE IF DotAt(Tail(s)) = 0 THEN 0 ELSE 1 + DotAt(Tail(s))

IntPart(s) == IF DotAt(s) = 0 THEN s ELSE SubSeq(s, 1, DotAt(s) - 1)
FracPart(s) == IF DotAt(s) = 0 THEN <<>> ELSE SubSeq(s, DotAt(s) + 1, Len(s))

\* value of a digit string
RECURSIVE digits_val(_)
digits_val(s) ==
    IF s = <<>> THEN 0
    ELSE 10 * digits_val(SubSeq(s, 1, Len(s) - 1)) + DigitVal(s[Len(s)])

RECURSIVE strip_zeros(_)
strip_zeros(s) ==
    IF s # <<>> /\ s[Len(s)] = "0" THEN strip_zeros(SubSeq(s, 1, Len(s) - 1)) ELSE s

\* the number a numeric literal denotes
parse_number(s) == Num(digits_val(IntPart(s)), strip_zeros(FracPart(s)))

\* decimal digits of a natural number (only 0 and 1 are spellable over Chars)
RECURSIVE fmt_int(_)
fmt_int(n) ==
    IF n < 10 THEN <<CASE n = 0 -> "0" [] n = 1 -> "1">>
    ELSE fmt_int(n \div 10) \o fmt_int(n % 10)

\* how to_csv and str() write a number of a column of the given dtype
fmt_number(c, dtype) ==
    IF dtype = "int64" THEN fmt_int(c.n)
    ELSE fmt_int(c.n) \o <<".">> \o (IF c.f = <<>> THEN <<"0">> ELSE c.f)

\* order of two cells of one column, nulls last: -1, 0 or 1
cell_cmp(a, b) ==
    IF isna(a) /\ isna(b) THEN 0
    ELSE IF isna(a) THEN 1
    ELSE IF isna(b) THEN -1
    ELSE IF a.k = "str" THEN str_cmp(a.s, b.s)
    ELSE IF a.n < b.n THEN -1
    ELSE IF a.n > b.n THEN 1
    ELSE str_cmp(a.f, b.f)

\* order of two rows by all columns, left to right
RECURSIVE row_cmp(_, _)
row_cmp(r, q) ==
    IF r = <<>> THEN 0
    ELSE IF cell_cmp(Head(r), Head(q)) # 0 THEN cell_cmp(Head(r), Head(q))
    ELSE row_cmp(Tail(r), Tail(q))

DataFrame(columns, dtypes, rows) ==
    [columns |-> columns, dtypes |-> dtypes, rows |-> rows]

ObjectCols(df) == {j \in 1..Len(df.columns) : df.dtypes[j] = "object"}
NumericCols(df) == {j \in 1..Len(df.columns) : df.dtypes[j] \in {"int64", "float64"}}

\* the cells of column j, in row order
Column(df, j) == [i \in 1..Len(df.rows) |-> df.rows[i][j]]

\* DataFrame.empty: no rows or no columns
df_empty(df) == Len(df.rows) = 0 \/ Len(df.columns) = 0

(***************************************************************************)
(* Configuration                                                           *)
(*                                                                         *)
(* A configuration is the value json.loads returned: an object (a function *)
(* from option names to option values) or a non-object document.  An       *)
(* option value is a JSON scalar or a list of strings.                     *)
(***************************************************************************)

VBool(b) == [s |-> "", t |-> "bool", n |-> 0, b |-> b, l |-> <<>>]
VStr(s) == [s |-> s, t |-> "str", n |-> 0, b |-> FALSE, l |-> <<>>]
VInt(n) == [s |-> "", t |-> "int", n |-> n, b |-> FALSE, l |-> <<>>]
VNull == [s |-> "", t |-> "null", n |-> 0, b |-> FALSE, l |-> <<>>]
VList(l) == [s |-> "", t |-> "list", n |-> 0, b |-> FALSE, l |-> l]

JsonObject(opts) == [opts |-> opts, kind |-> "object"]
JsonNull == [opts |-> <<>>, kind |-> "null"]
JsonArray == [opts |-> <<>>, kind |-> "array"]
JsonEmptyArray == [opts |-> <<>>, kind |-> "empty_array"]

\* bool(value)
py_bool(v) ==
    CASE v.t = "bool" -> v.b
      [] v.t = "str" -> v.s # ""
      [] v.t = "int" -> v.n # 0
      [] v.t = "null" -> FALSE
      [] v.t = "list" -> v.l # <<>>

\* bool(config): a non-empty object or array is true
json_truthy(config) ==
    CASE config.kind = "object" -> DOMAIN config.opts # {}
      [] config.kind = "array" -> TRUE
      [] OTHER -> FALSE

\* the characters of a configuration string
py_text(s) ==
    CASE s = "" -> <<>>
      [] s = "a" -> <<"a">>
      [] s = "b" -> <<"b">>
      [] s = "0" -> <<"0">>

\* str(value).strip().lower() for the strings a null_strategy can hold
strategy_text(v) ==
    CASE v.t = "bool" -> IF v.b THEN "true" ELSE "false"
      [] v.t = "null" -> "none"
      [] v.t = "int" -> "int"
      [] v.t = "list" -> "list"
      [] v.t = "str" ->
            CASE v.s \in {"drop_any", " drop_any ", "DROP_ANY"} -> "drop_any"
              [] v.s \in {"drop_all", "Drop_All"} -> "drop_all"
              [] v.s \in {"fill", "FILL"} -> "fill"
              [] v.s \in {"keep", "KEEP", " keep"} -> "keep"
              [] v.s \in {"", " "} -> ""
              [] OTHER -> v.s

get_default_preprocess_config ==
    [drop_nulls |-> VBool(TRUE),
     drop_duplicates |-> VBool(TRUE),
     cleanup_text |-> VBool(TRUE),
     strip_text |-> VBool(TRUE),
     lowercase_text |-> VBool(TRUE),
     remove_punctuation |-> VBool(TRUE),
     collapse_spaces |-> VBool(TRUE),
     normalize_unicode |-> VBool(TRUE),
     remove_urls |-> VBool(FALSE),
     coerce_numeric_columns |-> VBool(TRUE),
     null_strategy |-> VStr("drop_any"),
     null_fill_text |-> VStr(""),
     null_fill_numeric |-> VInt(0),
     sort_rows |-> VBool(TRUE)]

\* dict.get(key, default)
config_get(config, key, default) ==
    IF key \in DOMAIN config THEN config[key] ELSE default

\* {**a, **b}
dict_merge(a, b) ==
    [key \in DOMAIN a \cup DOMAIN b |-> IF key \in DOMAIN b THEN b[key] ELSE a[key]]

(***************************************************************************)
(* The preprocessing pipeline (src/src/preprocess.py)                      *)
(*                                                                         *)
(* A step returns [error, df]: error is "" and df the table, or error      *)
(* names the exception the step raised.                                    *)
(***************************************************************************)

NoFrame == DataFrame(<<>>, <<>>, <<>>)
Ok(df) == [df |-> df, error |-> ""]
Raise(e) == [df |-> NoFrame, error |-> e]

\* str(column).strip().lower() for the column labels of the model; the tables
\* of the model have pairwise distinct normalized labels
label_norm(c) ==
    CASE c \in {"Name", " name ", "NAME"} -> "name"
      [] c \in {"Label", "LABEL", "label "} -> "label"
      [] c \in {"Extra", " extra"} -> "extra"
      [] OTHER -> c

normalize_columns(df) ==
    DataFrame([j \in 1..Len(df.columns) |-> label_norm(df.columns[j])],
              df.dtypes, df.rows)

\* the table with f applied to every cell of the columns in cols
MapCols(df, cols, f(_)) ==
    DataFrame(df.columns, df.dtypes,
              [i \in 1..Len(df.rows) |->
                  [j \in 1..Len(df.columns) |->
                      IF j \in cols THEN f(df.rows[i][j]) ELSE df.rows[i][j]]])

Range(seq) == {seq[i] : i \in 1..Len(seq)}

DefaultUnwanted ==
    << <<>>, <<"n", "a">>, <<"n", "/", "a">>, <<"n", "u", "l", "l">>,
       <<"n", "o", "n", "e">>, <<"-">>, <<"?">> >>

cleanup_text_with_config(value, config) ==
    LET t1 == IF py_bool(config_get(config, "normalize_unicode", VBool(TRUE)))
              THEN str_nfkc(value) ELSE value
        t2 == IF py_bool(config_get(config, "strip_text", VBool(TRUE)))
              THEN str_strip(t1) ELSE t1
        t3 == IF py_bool(config_get(config, "remove_urls", VBool(FALSE)))
              THEN sub_urls(t2) ELSE t2
        t4 == IF py_bool(config_get(config, "lowercase_text", VBool(TRUE)))
              THEN str_lower(t3) ELSE t3
        t5 == IF py_bool(config_get(config, "remove_punctuation", VBool(TRUE)))
              THEN sub_non_alnum(t4) ELSE t4
        t6 == IF py_bool(config_get(config, "collapse_spaces", VBool(TRUE)))
              THEN sub_spaces(t5) ELSE t5
    IN  str_strip(t6)

normalize_unwanted_values(df, config) ==
    LET unwanted_values == config_get(config, "unwanted_values", VList(DefaultUnwanted))
        unwanted_lookup ==
            IF unwanted_values.t = "list"
            THEN {str_lower(str_strip(item)) : item \in Range(unwanted_values.l)}
            ELSE {<<c>> : c \in Range(py_text(unwanted_values.s))}
        nullify(c) ==
            IF c.k = "str" /\ str_lower(str_strip(c.s)) \in unwanted_lookup
            THEN Null ELSE c
    IN  IF unwanted_values.t \in {"bool", "int", "null"}
        THEN Raise("TypeError")
        ELSE Ok(MapCols(df, ObjectCols(df), nullify))

\* the pattern ^-?\d+(\.\d+)?$ over Chars
is_numeric_text(s) ==
    IF DotAt(s) = 0 THEN IsDigits(s)
    ELSE IsDigits(IntPart(s)) /\ IsDigits(FracPart(s))

looks_like_numeric_series(cells) ==
    LET non_null == SelectSeq(cells, LAMBDA c : ~isna(c))
    IN  /\ non_null # <<>>
        /\ \A i \in 1..Len(non_null) : is_numeric_text(str_strip(non_null[i].s))

coerce_numeric_like_columns(df, config) ==
    IF ~py_bool(config_get(config, "coerce_numeric_columns", VBool(TRUE)))
    THEN df
    ELSE LET hit == {j \in ObjectCols(df) : looks_like_numeric_series(Column(df, j))}
             whole(j) == \A i \in 1..Len(df.rows) :
                            ~isna(df.rows[i][j]) /\ DotAt(df.rows[i][j].s) = 0
             to_numeric(c) == IF isna(c) THEN Null ELSE parse_number(str_strip(c.s))
         IN  DataFrame(df.columns,
                       [j \in 1..Len(df.columns) |->
                           IF j \in hit
                           THEN (IF whole(j) THEN "int64" ELSE "float64")
                           ELSE df.dtypes[j]],
                       MapCols(df, hit, to_numeric).rows)

has_null(row) == \E j \in 1..Len(row) : isna(row[j])
all_null(row) == \A j \in 1..Len(row) : isna(row[j])

\* a null handling in which keep is not overridden by drop_nulls
apply_null_strategy_keep_wins(df, config) ==
    LET s0 == strategy_text(config_get(config, "null_strategy", VStr("drop_any")))
        s1 == IF s0 = "" THEN "drop_any" ELSE s0
        strategy == s1
        text_fill_value == config_get(config, "null_fill_text", VStr(""))
        numeric_fill_value == config_get(config, "null_fill_numeric", VInt(0))
        fill_text(c) == IF isna(c) THEN Str(py_text(text_fill_value.s)) ELSE c
        fill_numeric(c) == IF isna(c) THEN Num(numeric_fill_value.n, <<>>) ELSE c
    IN  CASE strategy = "drop_any" ->
               Ok(DataFrame(df.columns, df.dtypes,
                            SelectSeq(df.rows, LAMBDA r : ~has_null(r))))
          [] strategy = "drop_all" ->
               Ok(DataFrame(df.columns, df.dtypes,
                            SelectSeq(df.rows, LAMBDA r : ~all_null(r))))
          [] strategy = "fill" ->
               IF ObjectCols(df) # {} /\ text_fill_value.t = "null"
               THEN Raise("ValueError")
               ELSE IF ObjectCols(df) # {} /\ text_fill_value.t = "list"
               THEN Raise("TypeError")
               ELSE IF NumericCols(df) # {} /\ numeric_fill_value.t = "null"
               THEN Raise("ValueError")
               ELSE IF NumericCols(df) # {} /\ numeric_fill_value.t = "list"
               THEN Raise("TypeError")
               ELSE Ok(MapCols(MapCols(df, ObjectCols(df), fill_text),
                               NumericCols(df), fill_numeric))
          [] OTHER -> Ok(df)

\* lines 108-140
apply_null_strategy(df, config) ==
    LET s0 == strategy_text(config_get(config, "null_strategy", VStr("drop_any")))
        s1 == IF s0 = "" THEN "drop_any" ELSE s0
        strategy ==
            IF py_bool(config_get(config, "drop_nulls", VBool(TRUE))) /\ s1 = "keep"
            THEN "drop_any" ELSE s1
        text_fill_value == config_get(config, "null_fill_text", VStr(""))
        numeric_fill_value == config_get(config, "null_fill_numeric", VInt(0))
        fill_text(c) == IF isna(c) THEN Str(py_text(text_fill_value.s)) ELSE c
        fill_numeric(c) == IF isna(c) THEN Num(numeric_fill_value.n, <<>>) ELSE c
    IN  CASE strategy = "drop_any" ->
               Ok(DataFrame(df.columns, df.dtypes,
                            SelectSeq(df.rows, LAMBDA r : ~has_null(r))))
          [] strategy = "drop_all" ->
               Ok(DataFrame(df.columns, df.dtypes,
                            SelectSeq(df.rows, LAMBDA r : ~all_null(r))))
          [] strategy = "fill" ->
               IF ObjectCols(df) # {} /\ text_fill_value.t = "null"
               THEN Raise("ValueError")
               ELSE IF ObjectCols(df) # {} /\ text_fill_value.t = "list"
               THEN Raise("TypeError")
               ELSE IF NumericCols(df) # {} /\ numeric_fill_value.t = "null"
               THEN Raise("ValueError")
               ELSE IF NumericCols(df) # {} /\ numeric_fill_value.t = "list"
               THEN Raise("TypeError")
               ELSE Ok(MapCols(MapCols(df, ObjectCols(df), fill_text),
                               NumericCols(df), fill_numeric))
          [] OTHER -> Ok(df)

\* DataFrame.drop_duplicates(keep="first")
RECURSIVE drop_duplicates(_)
drop_duplicates(rows) ==
    IF rows = <<>> THEN <<>>
    ELSE LET front == drop_duplicates(SubSeq(rows, 1, Len(rows) - 1))
             last == rows[Len(rows)]
         IN  IF last \in Range(front) THEN front ELSE Append(front, last)

\* a row put into a sorted sequence, behind the rows that are not larger
RECURSIVE insert_row(_, _)
insert_row(r, sorted) ==
    IF sorted = <<>> THEN <<r>>
    ELSE IF row_cmp(r, Head(sorted)) < 0 THEN <<r>> \o sorted
    ELSE <<Head(sorted)>> \o insert_row(r, Tail(sorted))

\* DataFrame.sort_values(by=all columns, kind="mergesort", na_position="last")
RECURSIVE sort_values(_)
sort_values(rows) ==
    IF rows = <<>> THEN <<>>
    ELSE insert_row(rows[Len(rows)], sort_values(SubSeq(rows, 1, Len(rows) - 1)))

\* a pipeline that removes duplicate rows before it cleans the text
apply_deterministic_preprocessing_dedupe_first(dataframe, config) ==
    IF json_truthy(config) /\ config.kind # "object" THEN Raise("TypeError")
    ELSE
    LET merged_config ==
            dict_merge(get_default_preprocess_config,
                       IF config.kind = "object" THEN config.opts ELSE <<>>)
        p0 == IF py_bool(config_get(merged_config, "drop_duplicates", VBool(TRUE)))
              THEN DataFrame(dataframe.columns, dataframe.dtypes,
                             drop_duplicates(dataframe.rows))
              ELSE dataframe
        p1 == normalize_columns(p0)
        p2 == normalize_unwanted_values(p1, merged_config)
        cleanup(c) == IF isna(c) THEN c
                      ELSE Str(cleanup_text_with_config(c.s, merged_config))
        p3 == IF py_bool(config_get(merged_config, "cleanup_text", VBool(TRUE)))
              THEN MapCols(p2.df, ObjectCols(p2.df), cleanup)
              ELSE p2.df
        p4 == coerce_numeric_like_columns(p3, merged_config)
        p5 == apply_null_strategy(p4, merged_config)
        p6 == p5.df.rows
        p7 == IF /\ py_bool(config_get(merged_config, "sort_rows", VBool(TRUE)))
                 /\ Len(p5.df.columns) > 0
              THEN sort_values(p6) ELSE p6
    IN  IF p2.error # "" THEN p2
        ELSE IF p5.error # "" THEN p5
        ELSE Ok(DataFrame(p5.df.columns, p5.df.dtypes, p7))

apply_deterministic_preprocessing(dataframe, config) ==
    IF json_truthy(config) /\ config.kind # "object" THEN Raise("TypeError")
    ELSE
    LET merged_config ==
            dict_merge(get_default_preprocess_config,
                       IF config.kind = "object" THEN config.opts ELSE <<>>)
        p1 == normalize_columns(dataframe)
        p2 == normalize_unwanted_values(p1, merged_config)
        cleanup(c) == IF isna(c) THEN c
                      ELSE Str(cleanup_text_with_config(c.s, merged_config))
        p3 == IF py_bool(config_get(merged_config, "cleanup_text", VBool(TRUE)))
              THEN MapCols(p2.df, ObjectCols(p2.df), cleanup)
              ELSE p2.df
        p4 == coerce_numeric_like_columns(p3, merged_config)
        p5 == apply_null_strategy(p4, merged_config)
        p6 == IF py_bool(config_get(merged_config, "drop_duplicates", VBool(TRUE)))
              THEN drop_duplicates(p5.df.rows) ELSE p5.df.rows
        p7 == IF /\ py_bool(config_get(merged_config, "sort_rows", VBool(TRUE)))
                 /\ Len(p5.df.columns) > 0
              THEN sort_values(p6) ELSE p6
    IN  IF p2.error # "" THEN p2
        ELSE IF p5.error # "" THEN p5
        ELSE Ok(DataFrame(p5.df.columns, p5.df.dtypes, p7))

(***************************************************************************)
(* Canonical bytes and digests (src/src/hasher.py)                         *)
(***************************************************************************)

\* the text to_csv writes for one cell: empty for a null
fmt_cell(c, dtype) ==
    CASE c.k = "null" -> <<>>
      [] c.k = "str" -> c.s
      [] c.k = "num" -> fmt_number(c, dtype)

\* DataFrame.to_csv(index=False, lineterminator="\n").encode("utf-8"): the
\* header line and one line of fields per row (no field over Chars needs
\* quoting)
dataframe_to_stable_csv_bytes(dataframe) ==
    [header |-> dataframe.columns,
     lines |-> [i \in 1..Len(dataframe.rows) |->
                   [j \in 1..Len(dataframe.columns) |->
                       fmt_cell(dataframe.rows[i][j], dataframe.dtypes[j])]]]

\* hashlib.sha256(payload).hexdigest(), collision-free
sha256_from_bytes(payload) == [k |-> "sha256", b |-> <<payload>>]

\* json.dumps(data, sort_keys=True, separators=(",", ":")): key order and
\* whitespace are gone, the value stays
canonical_json(data) == [json |-> data]

sha256_from_json(data) == sha256_from_bytes(canonical_json(data))

(***************************************************************************)
(* pandas.read_csv on canonical bytes (commit_service.py:203,              *)
(* diff_service.py:16)                                                     *)
(***************************************************************************)

\* an integer literal: digits, blanks around them allowed
is_csv_int(s) == IsDigits(str_strip(s))

\* a float literal: digits with one ".", at least one digit
is_csv_float(s) ==
    LET t == str_strip(s)
    IN  /\ DotAt(t) # 0
        /\ IntPart(t) \o FracPart(t) # <<>>
        /\ \A i \in 1..Len(IntPart(t)) : IsDigit(IntPart(t)[i])
        /\ \A i \in 1..Len(FracPart(t)) : IsDigit(FracPart(t)[i])

\* the only default NA literal that can be spelled over Chars is the empty
\* field
is_csv_na(s) == s = <<>>

read_csv(bytes) ==
    LET fields(j) == [i \in 1..Len(bytes.lines) |-> bytes.lines[i][j]]
        present(j) == SelectSeq(fields(j), LAMBDA s : ~is_csv_na(s))
        numeric(j) == \A i \in 1..Len(present(j)) :
                         is_csv_int(present(j)[i]) \/ is_csv_float(present(j)[i])
        dtype(j) ==
            IF Len(bytes.lines) = 0 THEN "object"
            ELSE IF ~numeric(j) THEN "object"
            ELSE IF /\ Len(present(j)) = Len(bytes.lines)
                    /\ \A i \in 1..Len(present(j)) : is_csv_int(present(j)[i])
                 THEN "int64"
                 ELSE "float64"
        cell(s, j) ==
            IF is_csv_na(s) THEN Null
            ELSE IF dtype(j) = "object" THEN Str(s)
            ELSE parse_number(str_strip(s))
    IN  DataFrame(bytes.header,
                  [j \in 1..Len(bytes.header) |-> dtype(j)],
                  [i \in 1..Len(bytes.lines) |->
                      [j \in 1..Len(bytes.header) |-> cell(bytes.lines[i][j], j)]])

(***************************************************************************)
(* Bounds                                                                  *)
(***************************************************************************)

\* a commit starts only while the log holds fewer than MaxLog events
MaxLog == 3


(***************************************************************************)
(* The files a user can name                                               *)
(***************************************************************************)

\* a path or other literal text, and Python's None
Txt(s) == [k |-> s, b |-> <<>>]
NoneVal == [k |-> "<None>", b |-> <<>>]

Missing == [type |-> "missing", suffix |-> "", content |-> <<>>]
CsvFile(header, lines) ==
    [type |-> "file", suffix |-> ".csv",
     content |-> [header |-> header, lines |-> lines]]
JsonFile(valid, value) ==
    [type |-> "file", suffix |-> ".json", content |-> [json |-> value, valid |-> valid]]

Disk ==
    [path \in {"a.csv", "b.csv", "z.csv", "e.csv", "zero.csv", "nofile.csv",
               "HEAD:a.csv",
               "k0.json", "k1.json", "k3.json", "arr.json", "bad.json",
               "k.yaml", "nofile.json"} |->
        CASE path = "a.csv" ->
               CsvFile(<<"Name", "Label">>,
                       << << <<"B", "o", "b">>, <<"1">> >>,
                          << <<"b", "o", "b", " ">>, <<"1">> >>,
                          << <<"A", "m", "y">>, <<"0">> >> >>)
          [] path = "b.csv" ->
               CsvFile(<<"Name", "Label">>,
                       << << <<"a", "m", "y">>, <<"0">> >>,
                          << <<"B", "o", "b", "!">>, <<"1">> >> >>)
          [] path = "z.csv" ->
               CsvFile(<<"Name", "Extra">>, << << <<" ">>, <<"1">> >> >>)
          [] path = "HEAD:a.csv" ->
               CsvFile(<<"Name", "Label">>, << << <<"A", "m", "y">>, <<"0">> >> >>)
          [] path = "e.csv" -> CsvFile(<<"Name", "Label">>, <<>>)
          [] path = "zero.csv" -> CsvFile(<<>>, <<>>)
          [] path = "k0.json" -> JsonFile(TRUE, JsonObject(<<>>))
          [] path = "k1.json" ->
               JsonFile(TRUE, JsonObject([lowercase_text |-> VBool(FALSE),
                                          remove_punctuation |-> VBool(FALSE)]))
          [] path = "k3.json" ->
               JsonFile(TRUE, JsonObject([lowercase_text |-> VBool(FALSE)]))
          [] path = "arr.json" -> JsonFile(TRUE, JsonArray)
          [] path = "bad.json" -> JsonFile(FALSE, JsonNull)
          [] path = "k.yaml" ->
               [type |-> "file", suffix |-> ".yaml",
                content |-> [json |-> JsonObject(<<>>), valid |-> TRUE]]
          [] OTHER -> Missing]

\* what the user enters: a dataset and a configuration for a commit from
\* paths, a dataset for a commit with the default configuration, a
\* configuration for a commit from HEAD, and a message
RawInputs ==
    {<<" 'a.csv' ", "k1.json">>, <<"a.csv", "nofile.json">>,
     <<"a.csv", "bad.json">>, <<"a.csv", "k.yaml">>, <<"a.csv", "arr.json">>,
     <<"nofile.csv", "nofile.json">>}
RawDefaultInputs == {"a.csv", "b.csv", "e.csv", "zero.csv", "nofile.csv"}
HeadInputs == {"k0.json", "bad.json"}
Messages == {" again "}
DefaultMessage == "first"

\* str.strip() on a commit message
message_strip(m) == IF m = " again " THEN "again" ELSE m

\* strip, then drop one pair of surrounding quotes
normalize_user_path(path_value) ==
    IF path_value = " 'a.csv' " THEN "a.csv" ELSE path_value

\* Path.exists() and Path.is_file()
is_file(path) == Disk[path].type = "file"

(***************************************************************************)
(* Loading (src/src/io_loader.py)                                          *)
(*                                                                         *)
(* A loader returns [error, value].                                        *)
(***************************************************************************)

read_config(config_path) ==
    IF ~is_file(config_path)
    THEN [error |-> "ValidationError", value |-> JsonNull]
    ELSE IF Disk[config_path].suffix # ".json"
    THEN [error |-> "ValidationError", value |-> JsonNull]
    ELSE IF ~Disk[config_path].content.valid
    THEN [error |-> "ValidationError", value |-> JsonNull]
    ELSE [error |-> "", value |-> Disk[config_path].content.json]

\* pd.read_csv raises EmptyDataError on a file without a header line
\* (no dataset of the model is a .json file, so the read_json branch is left out)
load_dataset(dataset_path) ==
    IF ~is_file(dataset_path) THEN Raise("ValidationError")
    ELSE IF Disk[dataset_path].suffix # ".csv" THEN Raise("ValidationError")
    ELSE IF Disk[dataset_path].content.header = <<>> THEN Raise("EmptyDataError")
    ELSE IF df_empty(read_csv(Disk[dataset_path].content))
    THEN Raise("ValidationError")
    ELSE Ok(read_csv(Disk[dataset_path].content))

validate_schema(dataframe) ==
    IF df_empty(dataframe) THEN "ValidationError"
    ELSE IF Len(dataframe.columns) = 0 THEN "ValidationError"
    ELSE ""

(***************************************************************************)
(* Repository state (src/src/repo.py)                                      *)
(***************************************************************************)

VARIABLES
    head_file,   \* the text of .mydata/HEAD, without the line end
    logs_file,   \* the content of .mydata/logs.json
    versions,    \* .mydata/versions: directory name -> (file name -> content)
    raw_data,    \* raw_data: file name -> bytes
    reports,     \* reports: file name -> diff report
    op           \* per writer: position and locals of the running operation,
                 \* and at "done" what it returned or raised

vars == <<head_file, logs_file, versions, raw_data, reports, op>>

Writers == {"w1", "w2"}

\* the writers that run operations when operations do not overlap
SeqWriters == {"w1"}

get_head(content) ==
    IF content.k \in {"", "null", "None"} THEN NoneVal ELSE content

\* a HEAD that holds the first eight characters of the id
set_head_short(version_id) == [k |-> "sha256[:8]", b |-> version_id.b]

\* the text set_head(version_id) leaves in HEAD
set_head(version_id) == version_id

read_logs(content) ==
    IF content.kind = "array" THEN content.data ELSE <<>>

\* a log file that keeps the newest event only
write_logs_latest(logs) == [kind |-> "array", data |-> <<logs[Len(logs)]>>]

\* json.dumps(logs, indent=2) written over the whole file
write_logs(logs) == [kind |-> "array", data |-> logs]

\* (versions_root / version_id).exists(): "." and ".." resolve to the
\* versions root and the repository root, which exist
version_exists(dirs, version_id) ==
    CASE version_id.k = "sha256" -> version_id \in DOMAIN dirs
      [] version_id.k \in {".", ".."} -> TRUE
      [] OTHER -> FALSE

\* a mapping with one entry written or replaced
Update(f, key, val) ==
    [x \in DOMAIN f \cup {key} |-> IF x = key THEN val ELSE f[x]]

\* the first eight characters of an id
short_id(version_id) ==
    IF version_id.k = "sha256" THEN [k |-> "sha256[:8]", b |-> version_id.b]
    ELSE version_id

Snapshot ==
    [head_file |-> head_file, logs_file |-> logs_file, versions |-> versions,
     raw_data |-> raw_data, reports |-> reports]

IdleOp == [pc |-> "idle"]

NoResult ==
    [kind |-> "none", config |-> JsonNull, error |-> "", version_id |-> NoneVal,
     mode |-> "", status |-> "", parent_id |-> NoneVal,
     head |-> NoneVal, args |-> <<>>, raw_dataframe |-> NoFrame,
     summary |-> <<>>]

Init ==
    /\ head_file \in {Txt(""), Txt("null")}
    /\ logs_file \in {[kind |-> "array", data |-> <<>>],
                      [kind |-> "empty", data |-> <<>>]}
    /\ versions = <<>>
    /\ raw_data = <<>>
    /\ reports = <<>>
    /\ op = [w \in Writers |-> IdleOp]

\* datetime.now(timezone.utc).isoformat(): the clock advances with every
\* event the log receives
now == Len(read_logs(logs_file))

\* operations do not overlap: one starts only while no other is running
CanStart(w) ==
    /\ w \in SeqWriters
    /\ \A v \in Writers : op[v].pc = "idle"

CanCommit(w) ==
    /\ CanStart(w)
    /\ Len(read_logs(logs_file)) < MaxLog

\* the operation of writer w ends with the given result; pre is the
\* repository as the operation found it
Finish(w, result) ==
    op' = [op EXCEPT ![w] =
              [pc |-> "done", result |-> result,
               pre |-> IF op[w].pc = "idle" THEN Snapshot ELSE op[w].pre]]

\* the caller has the result
Return(w) ==
    /\ op[w].pc = "done"
    /\ op' = [op EXCEPT ![w] = IdleOp]
    /\ UNCHANGED <<head_file, logs_file, versions, raw_data, reports>>

Failed(kind, mode, args, error) ==
    [NoResult EXCEPT !.kind = kind, !.mode = mode, !.args = args,
                     !.status = "error", !.error = error]

(***************************************************************************)
(* Commit entry points (src/src/commit_service.py:151-244)                 *)
(*                                                                         *)
(* An entry point returns [error, ...]: the exception it raised, or "" and *)
(* the arguments it hands to _persist_version.                             *)
(***************************************************************************)

create_version_from_paths(dataset_input, config_input) ==
    LET dataset_path == normalize_user_path(dataset_input)
        config_path == normalize_user_path(config_input)
        config == read_config(config_path)
        loaded == load_dataset(dataset_path)
        processed == apply_deterministic_preprocessing(loaded.df, config.value)
    IN  [config |-> config.value,
         error |->
            IF ~is_file(dataset_path) THEN "FileNotFoundError"
            ELSE IF config.error # "" THEN config.error
            ELSE IF loaded.error # "" THEN loaded.error
            ELSE IF validate_schema(loaded.df) # "" THEN validate_schema(loaded.df)
            ELSE processed.error,
         raw_dataframe |-> loaded.df,
         source_data_path |-> Txt(dataset_path),
         source_config_path |-> Txt(config_path),
         input_bytes |-> Disk[dataset_path].content,
         processed_dataframe |-> processed.df]

create_version_from_raw_default(dataset_input) ==
    LET dataset_path == normalize_user_path(dataset_input)
        loaded == load_dataset(dataset_path)
        config == JsonObject(get_default_preprocess_config)
        processed == apply_deterministic_preprocessing(loaded.df, config)
    IN  [config |-> config,
         error |->
            IF ~is_file(dataset_path) THEN "FileNotFoundError"
            ELSE IF loaded.error # "" THEN loaded.error
            ELSE IF validate_schema(loaded.df) # "" THEN validate_schema(loaded.df)
            ELSE processed.error,
         raw_dataframe |-> loaded.df,
         source_data_path |-> Txt(dataset_path),
         source_config_path |-> Txt("DEFAULT_CONFIG"),
         input_bytes |-> Disk[dataset_path].content,
         processed_dataframe |-> processed.df]

\* "HEAD:" followed by the id
HeadRef(version_id) == [k |-> "HEAD:", b |-> <<version_id>>]

\* (versions_root / version_id / name).exists()
artifact_exists(dirs, version_id, name) ==
    /\ version_id.k = "sha256"
    /\ version_id \in DOMAIN dirs
    /\ name \in DOMAIN dirs[version_id]

create_version_from_head(config_input) ==
    LET config_path == normalize_user_path(config_input)
        head_version == get_head(head_file)
        found == /\ head_version # NoneVal
                 /\ artifact_exists(versions, head_version, "processed.csv")
        config == read_config(config_path)
        input_bytes == IF found THEN versions[head_version]["processed.csv"]
                       ELSE [header |-> <<>>, lines |-> <<>>]
        raw_dataframe == read_csv(input_bytes)
        processed == apply_deterministic_preprocessing(raw_dataframe, config.value)
    IN  [config |-> config.value,
         error |->
            IF head_version = NoneVal THEN "DataLineageError"
            ELSE IF ~found THEN "DataLineageError"
            ELSE IF config.error # "" THEN config.error
            ELSE IF validate_schema(raw_dataframe) # ""
            THEN validate_schema(raw_dataframe)
            ELSE processed.error,
         raw_dataframe |-> raw_dataframe,
         source_data_path |-> HeadRef(head_version),
         source_config_path |-> Txt(config_path),
         input_bytes |-> input_bytes,
         processed_dataframe |-> processed.df]

\* the entry point ran up to its call of _persist_version, or raised
Enter(w, mode, args, entered, commit_message) ==
    /\ CanCommit(w)
    /\ IF entered.error # ""
       THEN Finish(w, Failed("commit", mode, args, entered.error))
       ELSE op' = [op EXCEPT ![w] =
                     dict_merge(entered,
                                [pc |-> "persist", mode |-> mode, args |-> args,
                                 pre |-> Snapshot,
                                 commit_message |-> commit_message])]
    /\ UNCHANGED <<head_file, logs_file, versions, raw_data, reports>>

CommitFromPaths(w) ==
    \E input \in RawInputs, commit_message \in Messages :
        Enter(w, "raw", <<input[1], input[2]>>,
              create_version_from_paths(input[1], input[2]),
              commit_message)

CommitFromRawDefault(w) ==
    \E dataset_input \in RawDefaultInputs :
        Enter(w, "raw_default", <<dataset_input, "DEFAULT_CONFIG">>,
              create_version_from_raw_default(dataset_input),
              DefaultMessage)

CommitFromHead(w) ==
    \E config_input \in HeadInputs :
        Enter(w, "head", <<"HEAD", config_input>>,
              create_version_from_head(config_input),
              DefaultMessage)

(***************************************************************************)
(* _persist_version (src/src/commit_service.py:38-148), one action per     *)
(* statement that reads or writes the repository                           *)
(***************************************************************************)

\* str(key) of a value_counts() key
key_text(c, dtype) ==
    IF isna(c) THEN <<"n", "a", "n">> ELSE fmt_cell(c, dtype)

label_distribution(processed_rows) ==
    IF "label" \notin Range(processed_rows.columns) THEN <<>>
    ELSE LET j == CHOOSE i \in 1..Len(processed_rows.columns) :
                      processed_rows.columns[i] = "label"
             cells == Column(processed_rows, j)
         IN  [key \in {key_text(cells[i], processed_rows.dtypes[j]) :
                          i \in 1..Len(cells)} |->
                 Cardinality({i \in 1..Len(cells) :
                     key_text(cells[i], processed_rows.dtypes[j]) = key})]

\* json.dumps(config, indent=2, sort_keys=True) + "\n"
config_snapshot_text(config) == [pretty_json |-> config]

\* Path(source_data_path).name or "raw_input.csv"
source_name(source_data_path) == source_data_path.k

\* str(source_data_path).startswith("HEAD:"): true of "HEAD:" followed by
\* an id and of the path of a file whose name starts with "HEAD:"
starts_with_head(source_data_path) ==
    source_data_path.k \in {"HEAD:", "HEAD:a.csv"}

dedupe_event(o) ==
    [event_type |-> "dedupe_hit",
     timestamp |-> o.timestamp,
     requested_source_data_path |-> o.source_data_path,
     requested_source_config_path |-> o.source_config_path,
     requested_input_hash |-> o.input_hash,
     requested_config_hash |-> o.config_hash,
     resolved_version_id |-> o.version_hash,
     message |-> "Run recorded. No new version created; existing version reused."]

\* the metadata dict of lines 91-129
metadata_of(o) ==
    [version_id |-> o.version_hash,
     parent_id |-> o.parent_id,
     source_data_path |-> o.source_data_path,
     source_config_path |-> o.source_config_path,
     commit_message |-> message_strip(o.commit_message),
     label_distribution |-> label_distribution(o.processed_dataframe),
     event_type |-> "commit",
     timestamp |-> o.timestamp,
     input_hash |-> o.input_hash,
     config_hash |-> o.config_hash,
     version_hash |-> o.version_hash,
     row_count |-> Len(o.processed_dataframe.rows),
     eval_metrics |-> NoneVal,
     preprocess_stats |->
        [rows_before |-> Len(o.raw_dataframe.rows),
         rows_after |-> Len(o.processed_dataframe.rows),
         columns_before |-> o.raw_dataframe.columns,
         columns_after |-> o.processed_dataframe.columns],
     artifacts |->
        IF starts_with_head(o.source_data_path)
        THEN [raw_snapshot |-> "raw_snapshot.csv",
              processed_snapshot |-> "processed.csv",
              config_snapshot |-> "config_snapshot.json"]
        ELSE [raw_snapshot |-> "raw_snapshot.csv",
              processed_snapshot |-> "processed.csv",
              config_snapshot |-> "config_snapshot.json",
              raw_archive |-> <<"raw_data", short_id(o.version_hash),
                                source_name(o.source_data_path)>>]]

\* a result whose parent_id is HEAD as the commit leaves it
Returned_parent_after(o, status, head) ==
    [NoResult EXCEPT !.kind = "commit", !.mode = o.mode, !.args = o.args,
                     !.status = status,
                     !.version_id = o.version_hash,
                     !.parent_id = head,
                     !.head = head,
                     !.raw_dataframe = o.raw_dataframe,
                     !.config = o.config]

Returned(o, status, head) ==
    [NoResult EXCEPT !.kind = "commit", !.mode = o.mode, !.args = o.args,
                     !.status = status,
                     !.version_id = o.version_hash,
                     !.parent_id = IF status = "created" THEN o.parent_id ELSE NoneVal,
                     !.head = head,
                     !.raw_dataframe = o.raw_dataframe,
                     !.config = o.config]

\* _persist_version raised
Raised(o, error) ==
    [Returned(o, "error", NoneVal) EXCEPT !.error = error]

\* the operation of writer w moves on with some locals set
Step(w, locals) == op' = [op EXCEPT ![w] = dict_merge(@, locals)]

At(w, pc) == op[w].pc = pc

\* an existence test that finds nothing
version_dir_exists_never(version_hash) == FALSE

\* an existence test that looks at the version HEAD names only
version_dir_exists_at_head(version_hash) == version_hash = get_head(head_file)

\* line 58: version_dir.exists()
version_dir_exists(version_hash) == version_hash \in DOMAIN versions

\* a version id that depends on the time of the run: the digest of the
\* processed bytes with one empty line added per tick of the clock
PersistStart_hashes_timestamp(w) ==
    /\ At(w, "persist")
    /\ LET timestamp == now
            processed_csv_bytes ==
                dataframe_to_stable_csv_bytes(op[w].processed_dataframe)
            version_hash ==
                sha256_from_bytes(
                    [header |-> processed_csv_bytes.header,
                     lines |-> processed_csv_bytes.lines
                                  \o [i \in 1..timestamp |-> <<>>]])
        IN  Step(w, [pc |-> IF version_dir_exists(version_hash)
                            THEN "dedupe_read" ELSE "mkdir",
                     parent_id |-> get_head(head_file),
                     timestamp |-> timestamp,
                     input_hash |-> sha256_from_bytes(op[w].input_bytes),
                     config_hash |-> sha256_from_json(op[w].config),
                     version_hash |-> version_hash,
                     processed_csv_bytes |-> processed_csv_bytes])
    /\ UNCHANGED <<head_file, logs_file, versions, raw_data, reports>>

\* lines 48-58: the hashes, parent_id, the timestamp, the existence test
PersistStart(w) ==
    /\ At(w, "persist")
    /\ LET timestamp == now
            processed_csv_bytes ==
                dataframe_to_stable_csv_bytes(op[w].processed_dataframe)
            version_hash == sha256_from_bytes(processed_csv_bytes)
        IN  Step(w, [pc |-> IF version_dir_exists(version_hash)
                            THEN "dedupe_read" ELSE "mkdir",
                     parent_id |-> get_head(head_file),
                     timestamp |-> timestamp,
                     input_hash |-> sha256_from_bytes(op[w].input_bytes),
                     config_hash |-> sha256_from_json(op[w].config),
                     version_hash |-> version_hash,
                     processed_csv_bytes |-> processed_csv_bytes])
    /\ UNCHANGED <<head_file, logs_file, versions, raw_data, reports>>

\* line 69, append_log: logs = self.read_logs()
DedupeReadLogs(w) ==
    /\ At(w, "dedupe_read")
    /\ Step(w, [logs |-> read_logs(logs_file), pc |-> "dedupe_write"])
    /\ UNCHANGED <<head_file, logs_file, versions, raw_data, reports>>

\* a duplicate that moves HEAD to the version it resolves to
DedupeWriteLogs_moves_head(w) ==
    /\ At(w, "dedupe_write")
    /\ logs_file' = write_logs(Append(op[w].logs, dedupe_event(op[w])))
    /\ head_file' = set_head(op[w].version_hash)
    /\ Finish(w, Returned(op[w], "duplicate", op[w].version_hash))
    /\ UNCHANGED <<versions, raw_data, reports>>

\* a duplicate that rewrites the metadata of the version it resolves to
DedupeWriteLogs_touches_metadata(w) ==
    /\ At(w, "dedupe_write")
    /\ logs_file' = write_logs(Append(op[w].logs, dedupe_event(op[w])))
    /\ versions' = [versions EXCEPT ![op[w].version_hash] =
                       Update(@, "metadata.json", metadata_of(op[w]))]
    /\ Finish(w, Returned(op[w], "duplicate", get_head(head_file)))
    /\ UNCHANGED <<head_file, raw_data, reports>>

\* a duplicate that appends a commit event for the version it resolves to
DedupeWriteLogs_commit_event(w) ==
    /\ At(w, "dedupe_write")
    /\ logs_file' = write_logs(Append(op[w].logs, metadata_of(op[w])))
    /\ Finish(w, Returned(op[w], "duplicate", get_head(head_file)))
    /\ UNCHANGED <<head_file, versions, raw_data, reports>>

\* line 69, append_log: the rewrite; lines 70-75: the return
DedupeWriteLogs(w) ==
    /\ At(w, "dedupe_write")
    /\ logs_file' = write_logs(Append(op[w].logs, dedupe_event(op[w])))
    /\ Finish(w, Returned(op[w], "duplicate", get_head(head_file)))
    /\ UNCHANGED <<head_file, versions, raw_data, reports>>

\* a mkdir with exist_ok=True
Mkdir_exist_ok(w) ==
    /\ At(w, "mkdir")
    /\ versions' = IF op[w].version_hash \in DOMAIN versions THEN versions
                   ELSE Update(versions, op[w].version_hash, <<>>)
    /\ Step(w, [pc |-> "write_raw"])
    /\ UNCHANGED <<head_file, logs_file, raw_data, reports>>

\* line 77: version_dir.mkdir(parents=True, exist_ok=False)
Mkdir(w) ==
    /\ At(w, "mkdir")
    /\ IF op[w].version_hash \in DOMAIN versions
       THEN /\ Finish(w, Raised(op[w], "FileExistsError"))
            /\ UNCHANGED versions
       ELSE /\ versions' = Update(versions, op[w].version_hash, <<>>)
            /\ Step(w, [pc |-> "write_raw"])
    /\ UNCHANGED <<head_file, logs_file, raw_data, reports>>

\* a file of the version directory of writer w is written
WriteArtifact(w, name, content) ==
    versions' = [versions EXCEPT ![op[w].version_hash] = Update(@, name, content)]

\* line 84
WriteRawSnapshot(w) ==
    /\ At(w, "write_raw")
    /\ WriteArtifact(w, "raw_snapshot.csv", op[w].input_bytes)
    /\ Step(w, [pc |-> "write_processed"])
    /\ UNCHANGED <<head_file, logs_file, raw_data, reports>>

\* a processed.csv that holds the bytes the commit read
WriteProcessedSnapshot_input_bytes(w) ==
    /\ At(w, "write_processed")
    /\ WriteArtifact(w, "processed.csv", op[w].input_bytes)
    /\ Step(w, [pc |-> "write_config"])
    /\ UNCHANGED <<head_file, logs_file, raw_data, reports>>

\* line 85
WriteProcessedSnapshot(w) ==
    /\ At(w, "write_processed")
    /\ WriteArtifact(w, "processed.csv", op[w].processed_csv_bytes)
    /\ Step(w, [pc |-> "write_config"])
    /\ UNCHANGED <<head_file, logs_file, raw_data, reports>>

\* lines 86-89
WriteConfigSnapshot(w) ==
    /\ At(w, "write_config")
    /\ WriteArtifact(w, "config_snapshot.json", config_snapshot_text(op[w].config))
    /\ Step(w, [pc |-> "archive"])
    /\ UNCHANGED <<head_file, logs_file, raw_data, reports>>

\* lines 122-129: the archive copy, skipped for a source that starts "HEAD:"
ArchiveRaw(w) ==
    /\ At(w, "archive")
    /\ raw_data' =
          IF starts_with_head(op[w].source_data_path) THEN raw_data
          ELSE Update(raw_data,
                      <<short_id(op[w].version_hash), source_name(op[w].source_data_path)>>,
                      op[w].input_bytes)
    /\ Step(w, [pc |-> "write_metadata"])
    /\ UNCHANGED <<head_file, logs_file, versions, reports>>

\* lines 131-134
WriteMetadata(w) ==
    /\ At(w, "write_metadata")
    /\ WriteArtifact(w, "metadata.json", metadata_of(op[w]))
    /\ Step(w, [pc |-> "log_read"])
    /\ UNCHANGED <<head_file, logs_file, raw_data, reports>>

\* a commit that sets HEAD before it appends the commit event
CommitReadLogs_head_first(w) ==
    /\ At(w, "log_read")
    /\ head_file' = set_head(op[w].version_hash)
    /\ Step(w, [logs |-> read_logs(logs_file), pc |-> "log_write"])
    /\ UNCHANGED <<logs_file, versions, raw_data, reports>>

\* line 136, append_log: logs = self.read_logs()
CommitReadLogs(w) ==
    /\ At(w, "log_read")
    /\ Step(w, [logs |-> read_logs(logs_file), pc |-> "log_write"])
    /\ UNCHANGED <<head_file, logs_file, versions, raw_data, reports>>

\* an append_log that compares the log with what it read and raises when
\* another writer has rewritten it in between
CommitWriteLogs_detects(w) ==
    /\ At(w, "log_write")
    /\ IF read_logs(logs_file) # op[w].logs
       THEN /\ Finish(w, Raised(op[w], "ConflictError"))
            /\ UNCHANGED logs_file
       ELSE /\ logs_file' = write_logs(Append(op[w].logs, metadata_of(op[w])))
            /\ Step(w, [pc |-> "set_head"])
    /\ UNCHANGED <<head_file, versions, raw_data, reports>>

\* line 136, append_log: the rewrite
CommitWriteLogs(w) ==
    /\ At(w, "log_write")
    /\ logs_file' = write_logs(Append(op[w].logs, metadata_of(op[w])))
    /\ Step(w, [pc |-> "set_head"])
    /\ UNCHANGED <<head_file, versions, raw_data, reports>>

\* line 137 and the return of lines 139-148
CommitSetHead(w) ==
    /\ At(w, "set_head")
    /\ head_file' = set_head(op[w].version_hash)
    /\ Finish(w, Returned(op[w], "created", op[w].version_hash))
    /\ UNCHANGED <<logs_file, versions, raw_data, reports>>

(***************************************************************************)
(* Checkout (src/app.py:227-316)                                           *)
(***************************************************************************)

\* the commit events that carry a version id
commit_records(logs) == SelectSeq(logs, LAMBDA record : record.event_type = "commit")

\* what a user can enter as a version: a listed id, the id of a directory,
\* an id that names nothing, the word get_head reads as no version, or "."
VersionInputs ==
    {commit_records(read_logs(logs_file))[i].version_id :
        i \in 1..Len(commit_records(read_logs(logs_file)))}
    \cup DOMAIN versions
    \cup {Txt("nosuch"), Txt("null"), Txt(".")}

CheckoutResult(status, target, previous_head) ==
    [NoResult EXCEPT !.kind = "checkout", !.status = status,
                     !.args = <<target>>, !.head = target,
                     !.summary = [previous_head |-> previous_head]]

\* a cancelled checkout that writes the None it got to HEAD
CheckoutCancelled_clears_head(w) ==
    /\ CanStart(w)
    /\ IF commit_records(read_logs(logs_file)) = <<>>
       THEN /\ Finish(w, Failed("checkout", "", <<>>, "DataLineageError"))
            /\ UNCHANGED head_file
       ELSE /\ head_file' = set_head(Txt("None"))
            /\ Finish(w, CheckoutResult("cancelled", NoneVal, get_head(head_file)))
    /\ UNCHANGED <<logs_file, versions, raw_data, reports>>

\* _select_version_interactively returns None
CheckoutCancelled(w) ==
    /\ CanStart(w)
    /\ IF commit_records(read_logs(logs_file)) = <<>>
       THEN Finish(w, Failed("checkout", "", <<>>, "DataLineageError"))
       ELSE Finish(w, CheckoutResult("cancelled", NoneVal, get_head(head_file)))
    /\ UNCHANGED <<head_file, logs_file, versions, raw_data, reports>>

\* a checkout that does not test version_exists
Checkout_unvalidated(w) ==
    /\ CanStart(w)
    /\ \E target_version \in VersionInputs :
        IF commit_records(read_logs(logs_file)) = <<>>
        THEN /\ Finish(w, Failed("checkout", "", <<target_version>>, "DataLineageError"))
             /\ UNCHANGED head_file
        ELSE /\ head_file' = set_head(target_version)
             /\ Finish(w, CheckoutResult("success", target_version,
                                         get_head(head_file)))
    /\ UNCHANGED <<logs_file, versions, raw_data, reports>>

\* _checkout_flow with a selected target
Checkout(w) ==
    /\ CanStart(w)
    /\ \E target_version \in VersionInputs :
        IF commit_records(read_logs(logs_file)) = <<>>
        THEN /\ Finish(w, Failed("checkout", "", <<target_version>>, "DataLineageError"))
             /\ UNCHANGED head_file
        ELSE IF ~version_exists(versions, target_version)
        THEN /\ Finish(w, Failed("checkout", "", <<target_version>>, "DataLineageError"))
             /\ UNCHANGED head_file
        ELSE /\ head_file' = set_head(target_version)
             /\ Finish(w, CheckoutResult("success", target_version,
                                         get_head(head_file)))
    /\ UNCHANGED <<logs_file, versions, raw_data, reports>>

(***************************************************************************)
(* Compare (src/src/diff_service.py)                                       *)
(***************************************************************************)

\* reports_dir / f"diff_{version_a[:8]}__{version_b[:8]}.json"
report_file(version_a, version_b) ==
    <<"reports", short_id(version_a), short_id(version_b)>>

\* a row_delta that is the size of the difference
row_delta_unsigned(dataframe_a, dataframe_b) ==
    IF Len(dataframe_b.rows) >= Len(dataframe_a.rows)
    THEN Len(dataframe_b.rows) - Len(dataframe_a.rows)
    ELSE Len(dataframe_a.rows) - Len(dataframe_b.rows)

\* lines 64 and 103: int(len(dataframe_b) - len(dataframe_a))
row_delta(dataframe_a, dataframe_b) ==
    Len(dataframe_b.rows) - Len(dataframe_a.rows)

\* [error, report, summary]: the exception raised, or "" with the report
\* written and the summary returned
compare_versions(dirs, version_a, version_b, generated_at) ==
    IF \/ ~version_exists(dirs, version_a)
       \/ ~version_exists(dirs, version_b)
       \/ ~artifact_exists(dirs, version_a, "processed.csv")
       \/ ~artifact_exists(dirs, version_b, "processed.csv")
       \/ ~artifact_exists(dirs, version_a, "metadata.json")
       \/ ~artifact_exists(dirs, version_b, "metadata.json")
    THEN [error |-> "DataLineageError", summary |-> <<>>, report |-> <<>>]
    ELSE
    LET dataframe_a == read_csv(dirs[version_a]["processed.csv"])
        dataframe_b == read_csv(dirs[version_b]["processed.csv"])
        metadata_a == dirs[version_a]["metadata.json"]
        metadata_b == dirs[version_b]["metadata.json"]
        columns_a == Range(dataframe_a.columns)
        columns_b == Range(dataframe_b.columns)
        summary ==
            [row_delta |-> row_delta(dataframe_a, dataframe_b),
             row_count_a |-> Len(dataframe_a.rows),
             row_count_b |-> Len(dataframe_b.rows),
             config_changed |-> metadata_a.config_hash # metadata_b.config_hash,
             label_distribution_changed |->
                metadata_a.label_distribution # metadata_b.label_distribution]
    IN  [error |-> "",
         summary |->
            [version_a |-> version_a, version_b |-> version_b,
             row_delta |-> summary.row_delta,
             row_count_a |-> summary.row_count_a,
             row_count_b |-> summary.row_count_b,
             config_changed |-> summary.config_changed,
             label_distribution_changed |-> summary.label_distribution_changed,
             report_path |-> report_file(version_a, version_b)],
         report |->
            [columns |->
                [only_in_a |-> columns_a \ columns_b,
                 only_in_b |-> columns_b \ columns_a,
                 common |-> columns_a \cap columns_b],
             summary |->
                [row_delta |-> summary.row_delta,
                 row_count_a |-> summary.row_count_a,
                 row_count_b |-> summary.row_count_b,
                 config_changed |-> summary.config_changed,
                 column_count_a |-> Len(dataframe_a.columns),
                 column_count_b |-> Len(dataframe_b.columns)],
             label_distribution |->
                [a |-> metadata_a.label_distribution,
                 b |-> metadata_b.label_distribution,
                 changed |-> summary.label_distribution_changed],
             version_a |-> version_a,
             version_b |-> version_b,
             generated_at |-> generated_at,
             hashes |->
                [config_hash_a |-> metadata_a.config_hash,
                 config_hash_b |-> metadata_b.config_hash,
                 input_hash_a |-> metadata_a.input_hash,
                 input_hash_b |-> metadata_b.input_hash,
                 version_hash_a |-> metadata_a.version_hash,
                 version_hash_b |-> metadata_b.version_hash]]]

\* the parent recorded for a version, the version itself when there is none
parent_or_self(version_id) ==
    IF /\ artifact_exists(versions, version_id, "metadata.json")
       /\ versions[version_id]["metadata.json"].parent_id # NoneVal
    THEN versions[version_id]["metadata.json"].parent_id
    ELSE version_id

\* the pairs a user compares: the parent of the version HEAD names with that
\* version, and an id that names nothing on either side
CompareInputs ==
    IF get_head(head_file) = NoneVal
    THEN {<<Txt("nosuch"), Txt("nosuch")>>}
    ELSE {<<parent_or_self(get_head(head_file)), get_head(head_file)>>,
          <<Txt("nosuch"), get_head(head_file)>>,
          <<get_head(head_file), Txt("nosuch")>>}

\* a compare that counts the events of the log as rows of version_b
Compare_counts_events(w) ==
    /\ CanStart(w)
    /\ \E pair \in CompareInputs :
        LET generated_at == now
            version_a == pair[1]
            version_b == pair[2]
            compared == compare_versions(versions, version_a, version_b, generated_at)
        IN  IF compared.error # ""
            THEN /\ Finish(w, Failed("compare", "", <<version_a, version_b>>,
                                     compared.error))
                 /\ UNCHANGED reports
            ELSE /\ reports' = Update(reports, report_file(version_a, version_b),
                                      compared.report)
                 /\ Finish(w, [NoResult EXCEPT !.kind = "compare",
                                               !.status = "done",
                                               !.args = <<version_a, version_b>>,
                                               !.summary =
                                                  [compared.summary EXCEPT
                                                      !.row_count_b = @ + generated_at,
                                                      !.row_delta = @ + generated_at]])
    /\ UNCHANGED <<head_file, logs_file, versions, raw_data>>

Compare(w) ==
    /\ CanStart(w)
    /\ \E pair \in CompareInputs :
        LET generated_at == now
            version_a == pair[1]
            version_b == pair[2]
            compared == compare_versions(versions, version_a, version_b, generated_at)
        IN  IF compared.error # ""
            THEN /\ Finish(w, Failed("compare", "", <<version_a, version_b>>,
                                     compared.error))
                 /\ UNCHANGED reports
            ELSE /\ reports' = Update(reports, report_file(version_a, version_b),
                                      compared.report)
                 /\ Finish(w, [NoResult EXCEPT !.kind = "compare",
                                               !.status = "done",
                                               !.args = <<version_a, version_b>>,
                                               !.summary = compared.summary])
    /\ UNCHANGED <<head_file, logs_file, versions, raw_data>>

(***************************************************************************)
(* Specification: one operation at a time                                  *)
(***************************************************************************)

Next ==
    \E w \in Writers :
        \/ CommitFromPaths(w)
        \/ CommitFromRawDefault(w)
        \/ CommitFromHead(w)
        \/ PersistStart(w)
        \/ DedupeReadLogs(w)
        \/ DedupeWriteLogs(w)
        \/ Mkdir(w)
        \/ WriteRawSnapshot(w)
        \/ WriteProcessedSnapshot(w)
        \/ WriteConfigSnapshot(w)
        \/ ArchiveRaw(w)
        \/ WriteMetadata(w)
        \/ CommitReadLogs(w)
        \/ CommitWriteLogs(w)
        \/ CommitSetHead(w)
        \/ CheckoutCancelled(w)
        \/ Checkout(w)
        \/ Compare(w)
        \/ Return(w)

Spec == Init /\ [][Next]_vars

TypeOK ==
    /\ \A w \in Writers : op[w].pc \in
          {"idle", "persist", "dedupe_read", "dedupe_write", "mkdir", "write_raw",
           "write_processed", "write_config", "archive", "write_metadata",
           "log_read", "log_write", "set_head", "set_head_write", "done"}
    /\ \A w \in Writers : op[w].pc = "done" =>
          op[w].result.status \in {"created", "duplicate", "error", "success",
                                   "cancelled", "done"}

(***************************************************************************)
(* Properties                                                              *)
(*                                                                         *)
(* An operation that has ended holds, until its caller takes the result,   *)
(* what it returned or raised (op[w].result) and the repository as it      *)
(* found it (op[w].pre).                                                   *)
(***************************************************************************)

Finished(w) == op[w].pc = "done"

Last(s) == s[Len(s)]

IsPrefix(s, t) == Len(s) <= Len(t) /\ SubSeq(t, 1, Len(s)) = s

\* a commit that got as far as _persist_version has ended
CommitReached(w) ==
    /\ Finished(w)
    /\ op[w].result.kind = "commit"
    /\ op[w].result.version_id # NoneVal

ArtifactNames ==
    {"raw_snapshot.csv", "processed.csv", "config_snapshot.json", "metadata.json"}

\* the positions of the commit events of a version in a log
commit_index(logs, version_id) ==
    {i \in 1..Len(logs) :
        /\ logs[i].event_type = "commit"
        /\ logs[i].version_id = version_id}

\* the canonical bytes of the table a commit's table and configuration
\* preprocess to
resolved_bytes(r) ==
    dataframe_to_stable_csv_bytes(
        apply_deterministic_preprocessing(r.raw_dataframe, r.config).df)

\* the versions met by following parent_id from an id
RECURSIVE lineage(_, _, _)
lineage(dirs, version_id, n) ==
    IF n = 0 \/ ~artifact_exists(dirs, version_id, "metadata.json") THEN {}
    ELSE {version_id}
         \cup lineage(dirs, dirs[version_id]["metadata.json"].parent_id, n - 1)

Reachable(dirs, version_id) == lineage(dirs, version_id, Cardinality(DOMAIN dirs))

\* the commit of writer w has ended, and the call right before it was a commit
\* of the same table and configuration that created the version HEAD names
SameAsLastCommit(w) ==
    LET pre == op[w].pre
        logs == read_logs(pre.logs_file)
        first == Last(logs).version_id
    IN  /\ Finished(w)
        /\ op[w].result.kind = "commit"
        /\ logs # <<>>
        /\ Last(logs).event_type = "commit"
        /\ get_head(pre.head_file) = first
        /\ artifact_exists(pre.versions, first, "raw_snapshot.csv")
        /\ artifact_exists(pre.versions, first, "config_snapshot.json")
        /\ op[w].result.raw_dataframe = read_csv(pre.versions[first]["raw_snapshot.csv"])
        /\ config_snapshot_text(op[w].result.config) =
              pre.versions[first]["config_snapshot.json"]

\* C1: a commit of the same table and configuration as the commit right
\* before it, which created a version, returns duplicate with the id of that
\* version, and HEAD is what the first commit left
DedupIdempotence ==
    \A w \in Writers : SameAsLastCommit(w) =>
        /\ op[w].result.status = "duplicate"
        /\ op[w].result.version_id = Last(read_logs(op[w].pre.logs_file)).version_id
        /\ get_head(head_file) = get_head(op[w].pre.head_file)
        /\ op[w].result.head = get_head(head_file)

DedupIdempotenceWitness ==
    \E w \in Writers :
        /\ SameAsLastCommit(w)
        /\ op[w].result.status = "duplicate"
        /\ Len(read_logs(logs_file)) = 2

\* C2: a commit that returns created returns, stores in metadata.json and
\* logs as parent_id the value HEAD had before the call, null included
ParentLinkage ==
    \A w \in Writers :
        (/\ Finished(w)
         /\ op[w].result.kind = "commit"
         /\ op[w].result.status = "created") =>
            LET before == get_head(op[w].pre.head_file)
                id == op[w].result.version_id
            IN  /\ op[w].result.parent_id = before
                /\ artifact_exists(versions, id, "metadata.json")
                /\ versions[id]["metadata.json"].parent_id = before
                /\ Last(read_logs(logs_file)).parent_id = before

\* a commit from HEAD has created a version on top of the version HEAD named
ParentLinkageWitness ==
    \E w \in Writers :
        /\ Finished(w)
        /\ op[w].result.kind = "commit"
        /\ op[w].result.mode = "head"
        /\ op[w].result.status = "created"
        /\ get_head(op[w].pre.head_file).k = "sha256"
        /\ op[w].result.parent_id = get_head(op[w].pre.head_file)
        /\ get_head(head_file) # get_head(op[w].pre.head_file)

\* C3: HEAD is null or names an id for which version_exists is true
HeadValid ==
    \/ get_head(head_file) = NoneVal
    \/ version_exists(versions, get_head(head_file))

\* a checkout moved HEAD from one version to another
HeadValidWitness ==
    \E w \in Writers :
        /\ Finished(w)
        /\ op[w].result.kind = "checkout"
        /\ op[w].result.status = "success"
        /\ get_head(head_file).k = "sha256"
        /\ get_head(op[w].pre.head_file).k = "sha256"
        /\ get_head(head_file) # get_head(op[w].pre.head_file)

\* the paths and the input hash a commit asked for
requested_source(pre, r) ==
    IF r.mode = "head"
    THEN [config_path |-> Txt(normalize_user_path(r.args[2])),
          input_hash |->
             sha256_from_bytes(pre.versions[get_head(pre.head_file)]["processed.csv"]),
          data_path |-> HeadRef(get_head(pre.head_file))]
    ELSE [config_path |-> Txt(normalize_user_path(r.args[2])),
          input_hash |->
             sha256_from_bytes(Disk[normalize_user_path(r.args[1])].content),
          data_path |-> Txt(normalize_user_path(r.args[1]))]

\* C4: a commit whose version directory exists returns duplicate, appends one
\* dedupe_hit event with the requested paths and hashes and the resolved id,
\* and leaves HEAD and the version directories as they were
DuplicateFrame ==
    \A w \in Writers :
        (CommitReached(w) /\ op[w].result.version_id \in DOMAIN op[w].pre.versions) =>
            LET r == op[w].result
                pre == op[w].pre
                logs == read_logs(logs_file)
                requested == requested_source(pre, r)
            IN  /\ r.status = "duplicate"
                /\ Len(logs) = Len(read_logs(pre.logs_file)) + 1
                /\ IsPrefix(read_logs(pre.logs_file), logs)
                /\ Last(logs).event_type = "dedupe_hit"
                /\ Last(logs).resolved_version_id = r.version_id
                /\ Last(logs).requested_source_data_path = requested.data_path
                /\ Last(logs).requested_source_config_path = requested.config_path
                /\ Last(logs).requested_input_hash = requested.input_hash
                /\ Last(logs).requested_config_hash = sha256_from_json(r.config)
                /\ head_file = pre.head_file
                /\ r.head = get_head(pre.head_file)
                /\ versions = pre.versions

\* a duplicate of a version other than the one HEAD names
DuplicateFrameWitness ==
    \E w \in Writers :
        /\ CommitReached(w)
        /\ op[w].result.status = "duplicate"
        /\ get_head(op[w].pre.head_file).k = "sha256"
        /\ get_head(op[w].pre.head_file) # op[w].result.version_id
        /\ get_head(head_file) = get_head(op[w].pre.head_file)

\* the version directories that hold the given processed bytes
holders(dirs, bytes) ==
    {v \in DOMAIN dirs :
        /\ "processed.csv" \in DOMAIN dirs[v]
        /\ dirs[v]["processed.csv"] = bytes}

\* C5: a commit is a duplicate exactly when some version directory holds the
\* bytes its table preprocesses to, and the id it resolves to is the name of
\* that directory, whatever input, configuration, mode and HEAD it came with
ContentIdentity ==
    \A w \in Writers : CommitReached(w) =>
        LET r == op[w].result
            bytes == resolved_bytes(r)
            held == holders(op[w].pre.versions, bytes)
        IN  /\ held # {} => (r.status = "duplicate" /\ held = {r.version_id})
            /\ held = {} =>
                  /\ r.status = "created"
                  /\ holders(versions, bytes) = {r.version_id}

\* a duplicate of a version HEAD does not descend from, committed in another
\* mode with another input and another configuration
ContentIdentityWitness ==
    \E w \in Writers :
        /\ CommitReached(w)
        /\ op[w].result.status = "duplicate"
        /\ LET r == op[w].result
               pre == op[w].pre
               metadata == pre.versions[r.version_id]["metadata.json"]
               event == Last(read_logs(logs_file))
           IN  /\ get_head(pre.head_file).k = "sha256"
               /\ r.version_id \notin Reachable(pre.versions, get_head(pre.head_file))
               /\ metadata.input_hash # event.requested_input_hash
               /\ metadata.config_hash # event.requested_config_hash
               /\ starts_with_head(metadata.source_data_path)
                     # starts_with_head(event.requested_source_data_path)

\* C6: the log an operation found is a prefix of the log at every step of the
\* operation and when it has ended, whether it created a version, found a
\* duplicate, failed, checked out or compared
LogAppendOnly ==
    \A w \in Writers : op[w].pc # "idle" =>
        IsPrefix(read_logs(op[w].pre.logs_file), read_logs(logs_file))

\* an operation has added an event to a log that held events
LogAppendOnlyWitness ==
    \E w \in Writers :
        /\ Finished(w)
        /\ Len(read_logs(op[w].pre.logs_file)) >= 2
        /\ Len(read_logs(logs_file)) > Len(read_logs(op[w].pre.logs_file))

\* C7: a version directory an operation found is there, with the same files
\* and the same content, at every step of the operation and when it has ended
VersionsWriteOnce ==
    \A w \in Writers : op[w].pc # "idle" =>
        \A v \in DOMAIN op[w].pre.versions :
            /\ v \in DOMAIN versions
            /\ versions[v] = op[w].pre.versions[v]

\* a commit has created a version beside one that existed, and another has
\* resolved to an existing one
VersionsWriteOnceWitness ==
    \E w \in Writers :
        /\ CommitReached(w)
        /\ op[w].result.status = "duplicate"
        /\ Cardinality(DOMAIN op[w].pre.versions) >= 2

\* C8: every version has one commit event, whose parent_id is the one
\* metadata.json records; the parent is null or a version whose commit event
\* comes earlier in the log, and never the version itself
LineageForest ==
    LET logs == read_logs(logs_file)
    IN  \A v \in DOMAIN versions :
            (/\ artifact_exists(versions, v, "metadata.json")
             /\ commit_index(logs, v) # {}) =>
                LET parent == versions[v]["metadata.json"].parent_id
                IN  /\ Cardinality(commit_index(logs, v)) = 1
                    /\ \A i \in commit_index(logs, v) : logs[i].parent_id = parent
                    /\ parent # v
                    /\ \/ parent = NoneVal
                       \/ /\ commit_index(logs, parent) # {}
                          /\ \A i \in commit_index(logs, parent),
                                j \in commit_index(logs, v) : i < j

\* C9: a commit event is in the log only when the four artifacts of its
\* version are written; HEAD names a version only when its metadata is
\* written and its commit event is in the log; and when a commit has returned
\* created the last event of the log is the commit event of the new id, equal
\* to its metadata, and HEAD is that id
CommitOrder ==
    LET logs == read_logs(logs_file)
        head == get_head(head_file)
    IN  /\ \A i \in 1..Len(logs) : logs[i].event_type = "commit" =>
              \A name \in ArtifactNames :
                  artifact_exists(versions, logs[i].version_id, name)
        /\ head.k = "sha256" =>
              /\ artifact_exists(versions, head, "metadata.json")
              /\ commit_index(logs, head) # {}
        /\ \A w \in Writers :
              (/\ Finished(w)
               /\ op[w].result.kind = "commit"
               /\ op[w].result.status = "created") =>
                  /\ Last(logs).event_type = "commit"
                  /\ Last(logs).version_id = op[w].result.version_id
                  /\ Last(logs) = versions[op[w].result.version_id]["metadata.json"]
                  /\ head = op[w].result.version_id
                  /\ op[w].result.head = head

\* the commit event of a new version is in the log and HEAD still names the
\* version it named before
CommitOrderWitness ==
    \E w \in Writers :
        /\ op[w].pc = "set_head"
        /\ Last(read_logs(logs_file)).version_id = op[w].version_hash
        /\ get_head(head_file).k = "sha256"
        /\ get_head(head_file) # op[w].version_hash

\* the commit of writer w was given a dataset file that is missing, a dataset
\* without rows or without columns, or a configuration file that is missing,
\* not .json or not JSON
FailsValidation(w) ==
    LET r == op[w].result
        dataset_path == normalize_user_path(r.args[1])
        config_path == normalize_user_path(r.args[2])
    IN  /\ Finished(w)
        /\ r.kind = "commit"
        /\ \/ /\ r.mode \in {"raw", "raw_default"}
              /\ \/ ~is_file(dataset_path)
                 \/ Disk[dataset_path].content.header = <<>>
                 \/ Disk[dataset_path].content.lines = <<>>
           \/ /\ r.mode = "raw"
              /\ read_config(config_path).error # ""

\* C10: such a commit fails with a ValidationError and leaves HEAD, the log,
\* the version directories and raw_data as it found them
ValidationFailsClean ==
    \A w \in Writers : FailsValidation(w) =>
        /\ op[w].result.status = "error"
        /\ op[w].result.error = "ValidationError"
        /\ head_file = op[w].pre.head_file
        /\ logs_file = op[w].pre.logs_file
        /\ versions = op[w].pre.versions
        /\ raw_data = op[w].pre.raw_data

\* a commit from HEAD has ended that found HEAD null
HeadUnsetRecommit(w) ==
    /\ Finished(w)
    /\ op[w].result.kind = "commit"
    /\ op[w].result.mode = "head"
    /\ get_head(op[w].pre.head_file) = NoneVal

\* C11: a commit from HEAD that finds HEAD null fails with a ValidationError,
\* whatever the configuration file holds, and leaves HEAD, the log and the
\* version directories as it found them
HeadUnsetFailsValidation ==
    \A w \in Writers : HeadUnsetRecommit(w) =>
        /\ op[w].result.status = "error"
        /\ op[w].result.error = "ValidationError"
        /\ head_file = op[w].pre.head_file
        /\ logs_file = op[w].pre.logs_file
        /\ versions = op[w].pre.versions

\* the table and the configuration a version was created from
created_from(dirs, v) ==
    [config |-> dirs[v]["config_snapshot.json"].pretty_json,
     raw_dataframe |-> read_csv(dirs[v]["raw_snapshot.csv"])]

\* C12: the id a commit resolves to is the digest of the canonical bytes of
\* the table its raw table and configuration preprocess to, so that a commit of
\* the table and configuration a version was created from resolves to that
\* version, whatever HEAD, the log, the version directories, the message, the
\* mode and the time of the run are
Determinism ==
    \A w \in Writers : CommitReached(w) =>
        LET r == op[w].result
        IN  /\ r.version_id = sha256_from_bytes(resolved_bytes(r))
            /\ \A v \in DOMAIN op[w].pre.versions :
                  (/\ ArtifactNames \subseteq DOMAIN op[w].pre.versions[v]
                   /\ created_from(op[w].pre.versions, v).raw_dataframe = r.raw_dataframe
                   /\ created_from(op[w].pre.versions, v).config = r.config)
                      => r.version_id = v

\* a commit has resolved to the version its table and configuration created
\* at an earlier time, under another HEAD and with fewer version directories
\* present
DeterminismWitness ==
    \E w \in Writers :
        /\ CommitReached(w)
        /\ LET r == op[w].result
               pre == op[w].pre
               v == r.version_id
           IN  /\ v \in DOMAIN pre.versions
               /\ created_from(pre.versions, v).raw_dataframe = r.raw_dataframe
               /\ created_from(pre.versions, v).config = r.config
               /\ pre.versions[v]["metadata.json"].parent_id # get_head(pre.head_file)
               /\ get_head(pre.head_file) # v
               /\ pre.versions[v]["metadata.json"].timestamp
                     # Last(read_logs(logs_file)).timestamp
               /\ Cardinality(DOMAIN pre.versions) >= 2

(***************************************************************************)
(* Specification: commits of datasets with different columns, and compare  *)
(***************************************************************************)

\* datasets whose processed tables differ in columns and in row count
CompareDatasets == {"a.csv", "z.csv"}

CommitDatasets(w) ==
    \E dataset_input \in CompareDatasets :
        Enter(w, "raw_default", <<dataset_input, "DEFAULT_CONFIG">>,
              create_version_from_raw_default(dataset_input),
              DefaultMessage)

\* a configuration that turns lowercase_text off and leaves the rest alone
RecommitConfigs == {"k3.json"}

RecommitDatasets(w) ==
    \E config_input \in RecommitConfigs :
        Enter(w, "head", <<"HEAD", config_input>>,
              create_version_from_head(config_input),
              DefaultMessage)

NextCompare ==
    \E w \in Writers :
        \/ CommitDatasets(w)
        \/ RecommitDatasets(w)
        \/ PersistStart(w)
        \/ DedupeReadLogs(w)
        \/ DedupeWriteLogs(w)
        \/ Mkdir(w)
        \/ WriteRawSnapshot(w)
        \/ WriteProcessedSnapshot(w)
        \/ WriteConfigSnapshot(w)
        \/ ArchiveRaw(w)
        \/ WriteMetadata(w)
        \/ CommitReadLogs(w)
        \/ CommitWriteLogs(w)
        \/ CommitSetHead(w)
        \/ Compare(w)
        \/ Return(w)

SpecCompare == Init /\ [][NextCompare]_vars

\* a compare has returned a summary
Compared(w) ==
    /\ Finished(w)
    /\ op[w].result.kind = "compare"
    /\ op[w].result.status = "done"

\* the report compare(version_a, version_b) would write now
report_of(version_a, version_b) ==
    compare_versions(versions, version_a, version_b, now).report

\* C13: when compare(A, B) has returned, compare(B, A) succeeds too, its
\* row_delta is minus the row_delta compare(A, B) returned and wrote, its
\* only_in_b is the only_in_a compare(A, B) wrote and the other way round, and
\* common is the same in both
DiffAntisymmetry ==
    \A w \in Writers : Compared(w) =>
        LET a == op[w].result.args[1]
            b == op[w].result.args[2]
            written == reports[report_file(a, b)]
            reverse == compare_versions(versions, b, a, now)
        IN  /\ reverse.error = ""
            /\ op[w].result.summary.row_delta = -reverse.summary.row_delta
            /\ written.summary.row_delta = -reverse.report.summary.row_delta
            /\ written.columns.only_in_a = reverse.report.columns.only_in_b
            /\ written.columns.only_in_b = reverse.report.columns.only_in_a
            /\ written.columns.common = reverse.report.columns.common

\* a compare of two versions that differ in row count and have a column each
\* that the other lacks
DiffAntisymmetryWitness ==
    \E w \in Writers :
        /\ Compared(w)
        /\ op[w].result.summary.row_delta < 0
        /\ LET written == reports[report_file(op[w].result.args[1],
                                              op[w].result.args[2])]
           IN  /\ written.columns.only_in_a = {"label"}
               /\ written.columns.only_in_b = {"extra"}
               /\ written.columns.common = {"name"}

\* the compare of writer w has returned, and a report of the same two ids was
\* there when it started
ComparedAgain(w) ==
    /\ Compared(w)
    /\ LET a == op[w].result.args[1]
           b == op[w].result.args[2]
       IN  /\ report_file(a, b) \in DOMAIN op[w].pre.reports
           /\ op[w].pre.reports[report_file(a, b)].version_a = a
           /\ op[w].pre.reports[report_file(a, b)].version_b = b

\* C14: a compare of two ids that were compared before returns the row
\* counts, row_delta, config_changed, label_distribution_changed and report
\* path of the earlier call, and writes the earlier report again with nothing
\* but generated_at renewed, whatever happened between the two calls
CompareIdempotent ==
    \A w \in Writers : ComparedAgain(w) =>
        LET a == op[w].result.args[1]
            b == op[w].result.args[2]
            earlier == op[w].pre.reports[report_file(a, b)]
            summary == op[w].result.summary
        IN  /\ summary.version_a = a
            /\ summary.version_b = b
            /\ summary.row_count_a = earlier.summary.row_count_a
            /\ summary.row_count_b = earlier.summary.row_count_b
            /\ summary.row_delta = earlier.summary.row_delta
            /\ summary.config_changed = earlier.summary.config_changed
            /\ summary.label_distribution_changed = earlier.label_distribution.changed
            /\ summary.report_path = report_file(a, b)
            /\ reports[report_file(a, b)] =
                  [earlier EXCEPT !.generated_at = reports[report_file(a, b)].generated_at]

\* two versions are compared a second time, at a later time, after a commit
\* has added an event to the log
CompareIdempotentWitness ==
    \E w \in Writers :
        /\ ComparedAgain(w)
        /\ op[w].result.args[1] # op[w].result.args[2]
        /\ op[w].result.summary.row_delta # 0
        /\ LET file == report_file(op[w].result.args[1], op[w].result.args[2])
           IN  op[w].pre.reports[file].generated_at < reports[file].generated_at

\* a compare has ended that was given an id for which version_exists is false
ComparedUnknown(w) ==
    /\ Finished(w)
    /\ op[w].result.kind = "compare"
    /\ \/ ~version_exists(op[w].pre.versions, op[w].result.args[1])
       \/ ~version_exists(op[w].pre.versions, op[w].result.args[2])

\* C15: such a compare fails with an InvalidVersionError, writes no report
\* and leaves HEAD, the log and the version directories as it found them
CompareNotFound ==
    \A w \in Writers : ComparedUnknown(w) =>
        /\ op[w].result.status = "error"
        /\ op[w].result.error = "InvalidVersionError"
        /\ reports = op[w].pre.reports
        /\ head_file = op[w].pre.head_file
        /\ logs_file = op[w].pre.logs_file
        /\ versions = op[w].pre.versions

\* the value of lowercase_text a configuration gives, the default when it
\* gives none
lowercase_text_of(config) ==
    IF config.kind = "object" /\ "lowercase_text" \in DOMAIN config.opts
    THEN py_bool(config.opts["lowercase_text"])
    ELSE TRUE

\* a commit from HEAD has returned duplicate with the id HEAD names; its
\* configuration turns lowercase_text off, the configuration the version was
\* created with had it on
LowercaseRecommit(w) ==
    /\ CommitReached(w)
    /\ op[w].result.mode = "head"
    /\ op[w].result.status = "duplicate"
    /\ op[w].result.version_id = get_head(op[w].pre.head_file)
    /\ ~lowercase_text_of(op[w].result.config)
    /\ lowercase_text_of(created_from(versions, op[w].result.version_id).config)

\* the parent metadata.json records for a version
parent_of(version_id) == versions[version_id]["metadata.json"].parent_id

\* scenario 3 as stated: after such a recommit, compare between the resulting
\* version and its own parent reports config_changed = true and row_delta = 0
ScenarioThree ==
    \A w \in Writers : LowercaseRecommit(w) =>
        LET v == op[w].result.version_id
            compared == compare_versions(versions, v, parent_of(v), now)
        IN  /\ compared.error = ""
            /\ compared.summary.config_changed
            /\ compared.summary.row_delta = 0

\* C16: after such a recommit the configuration hash that differs is in the
\* dedupe_hit event only: the version directories and HEAD are as they were,
\* the resulting version is the one HEAD names and keeps the configuration
\* hash it was created with; compare between the resulting version and the
\* HEAD it was recommitted from reports config_changed = false and
\* row_delta = 0; compare between the resulting version and its own parent
\* fails when the version has no parent and otherwise reports what it reported
\* before the recommit
ScenarioThreeStored ==
    \A w \in Writers : LowercaseRecommit(w) =>
        LET v == op[w].result.version_id
            event == Last(read_logs(logs_file))
            same == compare_versions(versions, v, get_head(op[w].pre.head_file), now)
            compared == compare_versions(versions, v, parent_of(v), now)
        IN  /\ versions = op[w].pre.versions
            /\ head_file = op[w].pre.head_file
            /\ event.event_type = "dedupe_hit"
            /\ event.resolved_version_id = v
            /\ event.requested_config_hash = sha256_from_json(op[w].result.config)
            /\ event.requested_config_hash # versions[v]["metadata.json"].config_hash
            /\ same.error = ""
            /\ ~same.summary.config_changed
            /\ same.summary.row_delta = 0
            /\ parent_of(v) = NoneVal => compared.error # ""
            /\ compared = compare_versions(op[w].pre.versions, v, parent_of(v), now)

\* such a recommit of a version whose parent was created with the same
\* configuration and has another row count
ScenarioThreeStoredWitness ==
    \E w \in Writers :
        /\ LowercaseRecommit(w)
        /\ LET v == op[w].result.version_id
               compared == compare_versions(versions, v, parent_of(v), now)
           IN  /\ parent_of(v) # NoneVal
               /\ compared.error = ""
               /\ ~compared.summary.config_changed
               /\ compared.summary.row_delta # 0

(***************************************************************************)
(* Specification: read_logs on every kind of log file                      *)
(***************************************************************************)

\* a log file holds at most MaxItems items
MaxItems == 3

\* what a JSON array in the log file can hold
LogItems ==
    {[event_type |-> "commit"], [event_type |-> "dedupe_hit"],
     [event_type |-> "other"], [note |-> "x"]}

\* the log file: absent, zero bytes, blanks only, text that is not JSON, a
\* JSON document that is not an array, or a JSON array
LogFiles ==
    {[kind |-> "missing", data |-> <<>>],
     [kind |-> "empty", data |-> <<>>],
     [kind |-> "blank", data |-> <<>>],
     [kind |-> "invalid", data |-> <<>>],
     [kind |-> "object", data |-> <<>>]}
    \cup {[kind |-> "array", data |-> items] :
            items \in UNION {[1..n -> LogItems] : n \in 0..MaxItems}}

\* line 42: read_text raises FileNotFoundError on an absent file, which the
\* except clause of line 49 does not catch
read_logs_error(content) ==
    IF content.kind = "missing" THEN "FileNotFoundError" ELSE ""

InitReadLogs ==
    /\ head_file = Txt("")
    /\ logs_file \in LogFiles
    /\ versions = <<>>
    /\ raw_data = <<>>
    /\ reports = <<>>
    /\ op = [w \in Writers |-> IdleOp]

\* a call of read_logs
ReadLogs(w) ==
    /\ CanStart(w)
    /\ IF read_logs_error(logs_file) # ""
       THEN Finish(w, Failed("read_logs", "", <<>>, read_logs_error(logs_file)))
       ELSE Finish(w, [NoResult EXCEPT !.kind = "read_logs", !.status = "done",
                                       !.summary = [logs |-> read_logs(logs_file)]])
    /\ UNCHANGED <<head_file, logs_file, versions, raw_data, reports>>

NextReadLogs ==
    \E w \in Writers :
        \/ ReadLogs(w)
        \/ Return(w)

SpecReadLogs == InitReadLogs /\ [][NextReadLogs]_vars

\* C17: read_logs never raises; it returns the empty sequence when the log
\* file is missing, is empty or does not hold a JSON array, and the stored
\* items in order otherwise
ReadLogsTotal ==
    \A w \in Writers :
        (Finished(w) /\ op[w].result.kind = "read_logs") =>
            /\ op[w].result.status = "done"
            /\ op[w].result.summary.logs =
                  IF logs_file.kind = "array" THEN logs_file.data ELSE <<>>

(***************************************************************************)
(* Specification: set_head in the steps of Path.write_text, and a writer   *)
(* that can be killed between them                                         *)
(***************************************************************************)

\* line 38, write_text: open(mode="w") truncates the file
SetHeadOpen(w) ==
    /\ At(w, "set_head")
    /\ head_file' = Txt("")
    /\ Step(w, [pc |-> "set_head_write"])
    /\ UNCHANGED <<logs_file, versions, raw_data, reports>>

\* line 38, write_text: the text is written and the file closed; then the
\* return of commit_service.py:139-148
SetHeadWrite(w) ==
    /\ At(w, "set_head_write")
    /\ head_file' = set_head(op[w].version_hash)
    /\ Finish(w, Returned(op[w], "created", op[w].version_hash))
    /\ UNCHANGED <<logs_file, versions, raw_data, reports>>

\* the process of writer w is killed inside set_head
Crash(w) ==
    /\ op[w].pc \in {"set_head", "set_head_write"}
    /\ Finish(w, Raised(op[w], "SIGKILL"))
    /\ UNCHANGED <<head_file, logs_file, versions, raw_data, reports>>

NextCrash ==
    \E w \in Writers :
        \/ CommitDatasets(w)
        \/ PersistStart(w)
        \/ DedupeReadLogs(w)
        \/ DedupeWriteLogs(w)
        \/ Mkdir(w)
        \/ WriteRawSnapshot(w)
        \/ WriteProcessedSnapshot(w)
        \/ WriteConfigSnapshot(w)
        \/ ArchiveRaw(w)
        \/ WriteMetadata(w)
        \/ CommitReadLogs(w)
        \/ CommitWriteLogs(w)
        \/ SetHeadOpen(w)
        \/ SetHeadWrite(w)
        \/ Crash(w)
        \/ Return(w)

SpecCrash == Init /\ [][NextCrash]_vars

\* C18: when a writer was killed inside set_head(v), get_head returns the
\* HEAD the commit found or v
SetHeadFullReplace ==
    \A w \in Writers :
        (Finished(w) /\ op[w].result.error = "SIGKILL") =>
            get_head(head_file) \in
                {get_head(op[w].pre.head_file), op[w].result.version_id}

(***************************************************************************)
(* Specification: the pipeline on tables and configurations                *)
(***************************************************************************)

\* the tables pd.read_csv gives for three dataset files: rows that are equal
\* once cleaned, a row with punctuation, a row whose text is blank
ProcessTables == {read_csv(Disk[path].content) : path \in {"a.csv", "b.csv", "z.csv"}}

\* what read_config can return: null, an empty array, an array with items,
\* an empty object, and objects that set null_strategy (to one of the four
\* strategies, to a name that is none of them or to a value that is not a
\* string) and one more option, to a value of the expected type or not
ProcessConfigs ==
    LET strategies ==
            {VStr("drop_any"), VStr("drop_all"), VStr("fill"), VStr("keep"),
             VStr("bogus"), VNull, VBool(TRUE), VInt(0)}
        options ==
            {<<"lowercase_text", VBool(FALSE)>>, <<"lowercase_text", VStr("")>>,
             <<"lowercase_text", VInt(1)>>, <<"lowercase_text", VNull>>,
             <<"lowercase_text", VList(<<>>)>>,
             <<"remove_punctuation", VBool(FALSE)>>,
             <<"drop_duplicates", VBool(FALSE)>>, <<"drop_duplicates", VNull>>,
             <<"sort_rows", VBool(FALSE)>>, <<"sort_rows", VStr("a")>>,
             <<"drop_nulls", VBool(FALSE)>>, <<"drop_nulls", VInt(0)>>,
             <<"coerce_numeric_columns", VBool(FALSE)>>,
             <<"unwanted_values", VList(<<>>)>>,
             <<"unwanted_values", VList(<< <<"a", "m", "y">> >>)>>,
             <<"unwanted_values", VStr("a")>>, <<"unwanted_values", VInt(0)>>,
             <<"unwanted_values", VNull>>, <<"unwanted_values", VBool(TRUE)>>,
             <<"null_fill_text", VStr("a")>>, <<"null_fill_text", VNull>>,
             <<"null_fill_numeric", VInt(0)>>, <<"null_fill_numeric", VNull>>}
    IN  {JsonNull, JsonEmptyArray, JsonArray, JsonObject(<<>>)}
        \cup {JsonObject([key \in {"null_strategy", option[1]} |->
                             IF key = option[1] THEN option[2] ELSE strategy]) :
                 strategy \in strategies, option \in options}

\* a call of apply_deterministic_preprocessing
Process(w) ==
    /\ CanStart(w)
    /\ \E dataframe \in ProcessTables, config \in ProcessConfigs :
        LET processed == apply_deterministic_preprocessing(dataframe, config)
        IN  Finish(w, [NoResult EXCEPT
                          !.kind = "process",
                          !.status = IF processed.error = "" THEN "done" ELSE "error",
                          !.error = processed.error,
                          !.raw_dataframe = dataframe,
                          !.config = config,
                          !.summary = [processed |-> processed.df]])
    /\ UNCHANGED <<head_file, logs_file, versions, raw_data, reports>>

NextProcess ==
    \E w \in Writers :
        \/ Process(w)
        \/ Return(w)

SpecProcess == Init /\ [][NextProcess]_vars

\* a call of the pipeline has ended
Processed(w) == Finished(w) /\ op[w].result.kind = "process"

\* C19: the pipeline returns a table for every table with rows and every
\* configuration read_config can return
ProcessNeverRaises ==
    \A w \in Writers : Processed(w) => op[w].result.status = "done"

\* the value the pipeline reads for an option that is on by default
option_on(config, key) ==
    IF config.kind = "object"
    THEN py_bool(config_get(config.opts, key, VBool(TRUE)))
    ELSE TRUE

\* the configuration with duplicate removal and sorting turned off
without_dedupe_sort(config) ==
    JsonObject(dict_merge(IF config.kind = "object" THEN config.opts ELSE <<>>,
                          [drop_duplicates |-> VBool(FALSE),
                           sort_rows |-> VBool(FALSE)]))

\* the rows after text cleanup and null handling: what the pipeline returns
\* with duplicate removal and sorting turned off
cleaned_rows(dataframe, config) ==
    apply_deterministic_preprocessing(dataframe, without_dedupe_sort(config)).df.rows

\* the pipeline has returned a table under a configuration that has
\* drop_duplicates and sort_rows on
ProcessedDedupeSort(w) ==
    /\ Processed(w)
    /\ op[w].result.status = "done"
    /\ option_on(op[w].result.config, "drop_duplicates")
    /\ option_on(op[w].result.config, "sort_rows")

\* C20: with drop_duplicates and sort_rows on, the rows returned are the
\* cleaned rows, each once, in ascending order by all columns from left to
\* right; a row's index is its position in the sequence
DedupeThenSort ==
    \A w \in Writers : ProcessedDedupeSort(w) =>
        LET rows == op[w].result.summary.processed.rows
            cleaned == cleaned_rows(op[w].result.raw_dataframe, op[w].result.config)
        IN  /\ Range(rows) = Range(cleaned)
            /\ \A i, j \in 1..Len(rows) :
                  i < j => (rows[i] # rows[j] /\ row_cmp(rows[i], rows[j]) < 0)
            /\ DOMAIN rows = 1..Cardinality(Range(cleaned))

\* scenario 1: ("Bob", 1), ("bob ", 1), ("Amy", 0) under the default options
\* clean to three rows of which the first two are equal, and come out as
\* amy/0, bob/1
DedupeThenSortWitness ==
    \E w \in Writers :
        /\ ProcessedDedupeSort(w)
        /\ op[w].result.raw_dataframe = read_csv(Disk["a.csv"].content)
        /\ LET cleaned == cleaned_rows(op[w].result.raw_dataframe, op[w].result.config)
           IN  /\ Len(cleaned) = 3
               /\ cleaned[1] = cleaned[2]
               /\ cleaned[3] # cleaned[1]
        /\ op[w].result.summary.processed.rows =
              << <<Str(<<"a", "m", "y">>), Num(0, <<>>)>>,
                 <<Str(<<"b", "o", "b">>), Num(1, <<>>)>> >>

(***************************************************************************)
(* Specification: two writers whose commits overlap                        *)
(***************************************************************************)

\* overlapping commits start only while the log holds fewer than
\* MaxOverlapLog events
MaxOverlapLog == 1

\* a writer starts a commit whatever the other writer is doing
CommitOverlapping(w) ==
    /\ op[w].pc = "idle"
    /\ Len(read_logs(logs_file)) < MaxOverlapLog
    /\ \E dataset_input \in CompareDatasets :
        LET entered == create_version_from_raw_default(dataset_input)
        IN  op' = [op EXCEPT ![w] =
                      dict_merge(entered,
                                 [pc |-> "persist", mode |-> "raw_default",
                                  args |-> <<dataset_input, "DEFAULT_CONFIG">>,
                                  pre |-> Snapshot,
                                  commit_message |-> DefaultMessage])]
    /\ UNCHANGED <<head_file, logs_file, versions, raw_data, reports>>

NextOverlap ==
    \E w \in Writers :
        \/ CommitOverlapping(w)
        \/ PersistStart(w)
        \/ DedupeReadLogs(w)
        \/ DedupeWriteLogs(w)
        \/ Mkdir(w)
        \/ WriteRawSnapshot(w)
        \/ WriteProcessedSnapshot(w)
        \/ WriteConfigSnapshot(w)
        \/ ArchiveRaw(w)
        \/ WriteMetadata(w)
        \/ CommitReadLogs(w)
        \/ CommitWriteLogs(w)
        \/ CommitSetHead(w)
        \/ Return(w)

SpecOverlap == Init /\ [][NextOverlap]_vars


(***************************************************************************)
(* C21: lost updates of two overlapping commits                            *)
(***************************************************************************)

\* both writers hold the record of a created version
BothCreated ==
    \A w \in Writers : Finished(w) /\ op[w].result.status = "created"

\* C21: with two writers whose commits overlap, no step of a commit reports
\* that the log or HEAD was rewritten by the other writer: the only error a
\* commit raises is mkdir's FileExistsError, for an id whose directory
\* exists, and a commit whose event was overwritten in the log, or whose
\* HEAD was overwritten, returns created like any other
LostUpdateUndetected ==
    \A w \in Writers :
        Finished(w) /\ op[w].result.status = "error"
        => /\ op[w].result.error = "FileExistsError"
           /\ op[w].result.version_id \in DOMAIN versions

\* both commits returned created for different ids, the log lacks the commit
\* event of one of them and holds the one of the other
LostUpdateWitness ==
    /\ BothCreated
    /\ op["w1"].result.version_id # op["w2"].result.version_id
    /\ \E w \in Writers :
          /\ commit_index(read_logs(logs_file), op[w].result.version_id) = {}
          /\ \A v \in Writers \ {w} :
                commit_index(read_logs(logs_file), op[v].result.version_id) # {}


(***************************************************************************)
(* C22: what moves HEAD                                                    *)
(***************************************************************************)

\* C22: when an operation has ended and HEAD is not what the operation
\* found, the operation is a commit that returned created or a checkout
\* whose target satisfied version_exists; a checkout of a target that does
\* not exist raises and leaves HEAD as it was, a checkout that succeeds
\* leaves exactly the target in HEAD, and no checkout changes the log, the
\* version directories or the archive
HeadMovedOnlyBy ==
    \A w \in Writers : Finished(w) =>
        LET r == op[w].result
            pre == op[w].pre
        IN  /\ head_file # pre.head_file =>
                \/ r.kind = "commit" /\ r.status = "created"
                \/ /\ r.kind = "checkout"
                   /\ r.status = "success"
                   /\ version_exists(pre.versions, r.args[1])
            /\ r.kind = "checkout" =>
                /\ logs_file = pre.logs_file
                /\ versions = pre.versions
                /\ raw_data = pre.raw_data
                /\ (Len(r.args) = 1 /\ ~version_exists(pre.versions, r.args[1])) =>
                       /\ r.status \in {"error", "cancelled"}
                       /\ head_file = pre.head_file
                /\ r.status = "success" => head_file = r.args[1]
                /\ r.status # "success" => head_file = pre.head_file

\* a checkout of an id that names nothing was refused on a repository whose
\* HEAD names a version, after a checkout had moved HEAD off the newest
\* version
HeadMovedOnlyByWitness ==
    \E w \in Writers :
        /\ Finished(w)
        /\ op[w].result.kind = "checkout"
        /\ op[w].result.status = "error"
        /\ op[w].result.args = <<Txt("nosuch")>>
        /\ get_head(head_file).k = "sha256"
        /\ commit_records(read_logs(logs_file)) # <<>>
        /\ Last(commit_records(read_logs(logs_file))).version_id
              # get_head(head_file)


(***************************************************************************)
(* C23: content-address integrity                                          *)
(***************************************************************************)

\* C23: in every state, the processed.csv of a version directory holds the
\* bytes whose digest is the name of the directory, and its metadata.json
\* carries that name as version_id and as version_hash
ContentAddressIntegrity ==
    \A v \in DOMAIN versions :
        /\ v.k = "sha256"
        /\ artifact_exists(versions, v, "processed.csv") =>
              sha256_from_bytes(versions[v]["processed.csv"]) = v
        /\ artifact_exists(versions, v, "metadata.json") =>
              /\ versions[v]["metadata.json"].version_id = v
              /\ versions[v]["metadata.json"].version_hash = v

\* a version whose processed bytes differ from the bytes it was made from is
\* stored whole, and a recommit from HEAD and a checkout have run after it
ContentAddressIntegrityWitness ==
    \E v \in DOMAIN versions, u \in DOMAIN versions, w \in Writers :
        /\ artifact_exists(versions, v, "metadata.json")
        /\ versions[v]["processed.csv"] # versions[v]["raw_snapshot.csv"]
        /\ artifact_exists(versions, u, "metadata.json")
        /\ versions[u]["metadata.json"].parent_id = v
        /\ Finished(w)
        /\ op[w].result.kind = "checkout"
        /\ op[w].result.status = "success"
        /\ op[w].result.args = <<v>>


(***************************************************************************)
(* C24: what the punctuation step keeps                                    *)
(***************************************************************************)

\* str.isalnum() on one character
IsAlnum(c) == c \in {"a", "b", "m", "o", "y", "A", "B", "0", "1", "S1"}

\* the letters and digits of a text, in order
alnum_of(s) == SelectSeq(s, IsAlnum)

\* the options the pipeline works with
merged_config_of(config) ==
    dict_merge(get_default_preprocess_config,
               IF config.kind = "object" THEN config.opts ELSE <<>>)

\* C24: with cleanup_text and remove_punctuation on, the letters and digits
\* of a cleaned text cell are the letters and digits of the cell, in lower
\* case when lowercase_text is on and as they were when it is off
PunctuationKeepsAlnum ==
    \A w \in Writers :
        (/\ Processed(w)
         /\ option_on(op[w].result.config, "cleanup_text")
         /\ option_on(op[w].result.config, "remove_punctuation")) =>
            LET dataframe == op[w].result.raw_dataframe
                merged_config == merged_config_of(op[w].result.config)
            IN  \A i \in 1..Len(dataframe.rows), j \in ObjectCols(dataframe) :
                    ~isna(dataframe.rows[i][j]) =>
                        LET value == dataframe.rows[i][j].s
                            kept == IF py_bool(config_get(merged_config,
                                                          "lowercase_text", VBool(TRUE)))
                                    THEN str_lower(str_nfkc(value))
                                    ELSE str_nfkc(value)
                        IN  alnum_of(cleanup_text_with_config(value, merged_config))
                                = alnum_of(kept)


(***************************************************************************)
(* C25: drop_nulls overrides the strategy keep                             *)
(***************************************************************************)

\* the configuration with null_strategy set to the given value
with_null_strategy(config, value) ==
    JsonObject(dict_merge(IF config.kind = "object" THEN config.opts ELSE <<>>,
                          [null_strategy |-> value]))

\* the pipeline has returned a table under a configuration whose
\* null_strategy reads keep
ProcessedKeep(w) ==
    /\ Processed(w)
    /\ op[w].result.status = "done"
    /\ strategy_text(config_get(merged_config_of(op[w].result.config),
                                "null_strategy", VStr("drop_any"))) = "keep"

\* C25: under null_strategy keep, when drop_nulls is on (set to a value that
\* counts as true, or left to the default) the table returned is the one
\* null_strategy drop_any gives and has no row with a null cell; a row with
\* a null cell is returned only when the configuration itself sets
\* drop_nulls, to a value that counts as false, and then the table is the
\* one a pipeline without null handling gives
KeepOverridden ==
    \A w \in Writers : ProcessedKeep(w) =>
        LET config == op[w].result.config
            dataframe == op[w].result.raw_dataframe
            processed == op[w].result.summary.processed
            drop_nulls == py_bool(config_get(merged_config_of(config),
                                             "drop_nulls", VBool(TRUE)))
            explicit == /\ config.kind = "object"
                        /\ "drop_nulls" \in DOMAIN config.opts
                        /\ ~py_bool(config.opts["drop_nulls"])
        IN  /\ drop_nulls =>
                /\ \A i \in 1..Len(processed.rows) : ~has_null(processed.rows[i])
                /\ processed =
                      apply_deterministic_preprocessing(
                          dataframe, with_null_strategy(config, VStr("drop_any"))).df
            /\ (\E i \in 1..Len(processed.rows) : has_null(processed.rows[i]))
                  => explicit
            /\ ~drop_nulls =>
                /\ explicit
                /\ processed =
                      apply_deterministic_preprocessing(
                          dataframe, with_null_strategy(config, VStr("bogus"))).df

\* null_strategy keep with drop_nulls left to the default, on a table that
\* has a null cell once cleaned: the row with the null cell is gone
KeepOverriddenWitness ==
    \E w \in Writers :
        /\ ProcessedKeep(w)
        /\ op[w].result.config.kind = "object"
        /\ "drop_nulls" \notin DOMAIN op[w].result.config.opts
        /\ LET untouched ==
                  apply_deterministic_preprocessing(
                      op[w].result.raw_dataframe,
                      with_null_strategy(op[w].result.config, VStr("bogus"))).df
           IN  /\ \E i \in 1..Len(untouched.rows) : has_null(untouched.rows[i])
               /\ Len(op[w].result.summary.processed.rows) < Len(untouched.rows)


(***************************************************************************)
(* C26: the log and the version store agree                                *)
(***************************************************************************)

\* no operation is under way
Quiescent == \A w \in Writers : op[w].pc \in {"idle", "done"}

\* C26: when no operation is under way, the ids of the commit events of the
\* log are the names of the version directories, every id has one commit
\* event, and the resolved_version_id of every dedupe_hit event has its
\* commit event earlier in the log
LogStoreConsistent ==
    Quiescent =>
        LET logs == read_logs(logs_file)
        IN  /\ {logs[i].version_id :
                   i \in {k \in 1..Len(logs) : logs[k].event_type = "commit"}}
                  = DOMAIN versions
            /\ \A v \in DOMAIN versions : Cardinality(commit_index(logs, v)) = 1
            /\ \A i \in 1..Len(logs) : logs[i].event_type = "dedupe_hit" =>
                  \E k \in commit_index(logs, logs[i].resolved_version_id) : k < i

\* two versions are stored and the log ends with a dedupe_hit event that
\* resolves to the older of them
LogStoreConsistentWitness ==
    LET logs == read_logs(logs_file)
    IN  /\ Quiescent
        /\ Cardinality(DOMAIN versions) = 2
        /\ Len(logs) = 3
        /\ logs[3].event_type = "dedupe_hit"
        /\ commit_index(logs, logs[3].resolved_version_id) = {1}


(***************************************************************************)
(* C27: two overlapping commits of the same content                        *)
(***************************************************************************)

\* the writer is past mkdir and has not returned: it writes the files of its
\* version directory, the log and HEAD
Creating(w) ==
    op[w].pc \in {"write_raw", "write_processed", "write_config", "archive",
                  "write_metadata", "log_read", "log_write", "set_head"}

\* C27: two writers never write into the same version directory at the same
\* time, no id has two commit events, and of two commits that ended with the
\* same id at most one returned created: the other returned duplicate or
\* raised FileExistsError at mkdir
OneCreator ==
    /\ \A w, v \in Writers :
          (w # v /\ Creating(w) /\ Creating(v)) =>
              op[w].version_hash # op[v].version_hash
    /\ \A id \in DOMAIN versions :
          Cardinality(commit_index(read_logs(logs_file), id)) <= 1
    /\ \A w, v \in Writers :
          (/\ w # v
           /\ Finished(w)
           /\ Finished(v)
           /\ op[w].result.version_id = op[v].result.version_id
           /\ op[w].result.status = "created") =>
              \/ op[v].result.status = "duplicate"
              \/ /\ op[v].result.status = "error"
                 /\ op[v].result.error = "FileExistsError"

\* both writers found the repository without the version; one created it
\* and the other raised FileExistsError at mkdir
OneCreatorWitness ==
    \E w, v \in Writers :
        /\ Finished(w)
        /\ Finished(v)
        /\ op[w].result.version_id = op[v].result.version_id
        /\ op[w].result.version_id \notin DOMAIN op[w].pre.versions
        /\ op[v].result.version_id \notin DOMAIN op[v].pre.versions
        /\ op[w].result.status = "created"
        /\ op[v].result.error = "FileExistsError"


(***************************************************************************)
(* Specification: commits whose file writes can fail                       *)
(***************************************************************************)

\* a write of _persist_version raises OSError before it has written
\* anything (the disk is full, the directory is read-only): the exception
\* leaves _persist_version and the commit ends
WriteFails(w) ==
    /\ op[w].pc \in {"write_raw", "write_processed", "write_config", "archive",
                     "write_metadata", "log_write"}
    /\ Finish(w, Raised(op[w], "OSError"))
    /\ UNCHANGED <<head_file, logs_file, versions, raw_data, reports>>

NextWriteFails ==
    \E w \in Writers :
        \/ CommitDatasets(w)
        \/ PersistStart(w)
        \/ DedupeReadLogs(w)
        \/ DedupeWriteLogs(w)
        \/ Mkdir(w)
        \/ WriteRawSnapshot(w)
        \/ WriteProcessedSnapshot(w)
        \/ WriteConfigSnapshot(w)
        \/ ArchiveRaw(w)
        \/ WriteMetadata(w)
        \/ CommitReadLogs(w)
        \/ CommitWriteLogs(w)
        \/ CommitSetHead(w)
        \/ WriteFails(w)
        \/ Return(w)

SpecWriteFails == Init /\ [][NextWriteFails]_vars

\* C28: when a commit has ended, with a record or with an OSError raised by
\* one of its writes, every version directory holds metadata.json and
\* processed.csv and has a commit event in the log, and a commit that
\* returned duplicate resolved to a version that has a commit event
PersistAllOrNothing ==
    \A w \in Writers :
        (Finished(w) /\ op[w].result.kind = "commit") =>
            /\ \A v \in DOMAIN versions :
                  /\ artifact_exists(versions, v, "metadata.json")
                  /\ artifact_exists(versions, v, "processed.csv")
                  /\ commit_index(read_logs(logs_file), v) # {}
            /\ op[w].result.status = "duplicate" =>
                  commit_index(read_logs(logs_file), op[w].result.version_id) # {}


(***************************************************************************)
(* Specification: commits of a dataset file whose name starts with "HEAD:" *)
(* and recommits from HEAD                                                 *)
(***************************************************************************)

CommitSources(w) ==
    \E dataset_input \in {"HEAD:a.csv", "z.csv"} :
        Enter(w, "raw_default", <<dataset_input, "DEFAULT_CONFIG">>,
              create_version_from_raw_default(dataset_input),
              DefaultMessage)

NextSources ==
    \E w \in Writers :
        \/ CommitSources(w)
        \/ RecommitDatasets(w)
        \/ PersistStart(w)
        \/ DedupeReadLogs(w)
        \/ DedupeWriteLogs(w)
        \/ Mkdir(w)
        \/ WriteRawSnapshot(w)
        \/ WriteProcessedSnapshot(w)
        \/ WriteConfigSnapshot(w)
        \/ ArchiveRaw(w)
        \/ WriteMetadata(w)
        \/ CommitReadLogs(w)
        \/ CommitWriteLogs(w)
        \/ CommitSetHead(w)
        \/ Return(w)

SpecSources == Init /\ [][NextSources]_vars

\* C29: the record of a version a recommit from HEAD created has "HEAD:"
\* followed by its parent_id as source_data_path and its parent_id as
\* input_hash, and the recommit wrote nothing under raw_data; the record of
\* a version a commit of a dataset file created has a source_data_path that
\* does not start with "HEAD:", and the commit wrote the archive copy
SourceOfVersion ==
    \A w \in Writers :
        (/\ Finished(w)
         /\ op[w].result.kind = "commit"
         /\ op[w].result.status = "created") =>
            LET record == versions[op[w].result.version_id]["metadata.json"]
            IN  IF op[w].result.mode = "head"
                THEN /\ record.source_data_path = HeadRef(record.parent_id)
                     /\ record.input_hash = record.parent_id
                     /\ raw_data = op[w].pre.raw_data
                ELSE /\ ~starts_with_head(record.source_data_path)
                     /\ <<short_id(record.version_id),
                          source_name(record.source_data_path)>> \in DOMAIN raw_data


(***************************************************************************)
(* C30: HEAD stays set                                                     *)
(***************************************************************************)

\* C30: no step of a commit, a duplicate, a checkout, a compare or an
\* operation that fails takes HEAD from an id to null: once get_head returns
\* an id it returns an id from then on
HeadStaysSet ==
    [][get_head(head_file) # NoneVal => get_head(head_file') # NoneVal]_vars

\* on a repository whose HEAD names a version, a checkout of "null" was
\* refused and HEAD names the version still
HeadStaysSetWitness ==
    \E w \in Writers :
        /\ Finished(w)
        /\ op[w].result.kind = "checkout"
        /\ op[w].result.status = "error"
        /\ op[w].result.args = <<Txt("null")>>
        /\ get_head(op[w].pre.head_file).k = "sha256"
        /\ get_head(head_file) = get_head(op[w].pre.head_file)

====
